---- MODULE Spec2Model ----
(***************************************************************************)
(* A model of logstream: the per-container tailer pipeline                 *)
(* (src/src/collector.py), the normalizer (src/src/normalizer.py), the     *)
(* scrubber (src/src/scrubber.py), the SQLite store (src/src/db.py), the   *)
(* retention purge (src/src/retention.py) and the shutdown sequence        *)
(* (src/src/main.py).                                                      *)
(*                                                                         *)
(* Representation.  A Python str is a sequence of tokens (<<>> is "").     *)
(* A parsed JSON object is a function from Keys to values, a value being   *)
(* [t, s, n]: t is the Python type ("none", "str", "int"), s the str,      *)
(* n the int.  An ISO-8601 timestamp string is the natural number of the   *)
(* instant it denotes; 0 stands for an absent or empty timestamp string.   *)
(* A decoded and stripped log line is [pfx, long, body]: pfx is the        *)
(* runtime timestamp it is prefixed with (0: none), long says whether the  *)
(* line has more than 30 characters, body is the text after the prefix,    *)
(* [json, text, data]: the JSON object `data` when it parses as one,       *)
(* the tokens `text` otherwise.                                            *)
(***************************************************************************)
EXTENDS Integers, Sequences, FiniteSets, TLC

\* ------------------------------------------------------------------ bounds

\* Number of tailer threads.
NTailers == 2
\* Lines a container stream delivers over all tailers together.
MaxLines == 3
\* Last instant of the wall clock.
MaxTime == 2
\* Number of live-tail sessions that can subscribe.
NQueues == 1
\* Live-tail sessions in a run of the broadcaster alone.
NSubscribers == 2
\* Entries published in a run of the broadcaster alone.
MaxPublished == 4
\* Containers of the runtime, threads the supervisor may start, polls it runs.
NContainers == 2
MaxThreads == 3
MaxPolls == 3
\* Tokens of a text given to the scrubber.
MaxAtoms == 5
\* Store failures (a batch insert that raises) in one run.
MaxFail == 1
\* Calls of insert_log / insert_logs_batch in one run of the store alone.
MaxInserts == 3
\* Retention purges in one run of the pipeline.
MaxPurge == 1
\* Last day of the wall clock, largest log_retention_days, number of cleanup
\* cycles and of inserted rows in a run of the retention loop alone.
MaxDay == 3
MaxRetentionDays == 3
MaxCycles == 2
MaxRetentionRows == 2
\* Keep-alive comments a live-tail session emits, and entries published, in
\* a run of the sessions alone.
MaxKeepalives == 1
MaxStreamEntries == 2
\* Threads calling the store in a run of its lock alone.
NCallers == 3

\* batch_size of _tail_container (50 in the source), scaled down.
batch_size == 2
\* maxsize of a subscriber queue (1000 in the source), scaled down.
maxsize == 2

Max(a, b) == IF a >= b THEN a ELSE b
Min(a, b) == IF a <= b THEN a ELSE b

Tailers == 1..NTailers
Queues == 1..NQueues
\* Every queue of a run: the sessions of the pipeline or of the broadcaster alone.
AllQueues == 1..Max(NQueues, NSubscribers)
Times == 1..MaxTime

\* ------------------------------------------------------------ Python values

None == [t |-> "none", s |-> <<>>, n |-> 0]
PyStr(s) == [t |-> "str", s |-> s, n |-> 0]
PyInt(n) == [t |-> "int", s |-> <<>>, n |-> n]
\* The str of an ISO-8601 timestamp denoting instant n.
IsoStr(n) == [t |-> "str", s |-> <<"iso">>, n |-> n]

\* Python truthiness of a value.
Truthy(v) == \/ v.t = "str" /\ v.s # <<>>
             \/ v.t = "int" /\ v.n # 0

Keys == {"event", "msg", "message", "log_level", "level", "levelname",
         "timestamp", "time", "trace_id", "traceId", "request_id",
         "requestId", "x_trace_id", "logging_strategy"}

\* The JSON object holding the pairs of f (a record), every other key absent.
Obj(f) == [k \in Keys |-> IF k \in DOMAIN f THEN f[k] ELSE None]
NoData == [k \in Keys |-> None]

Text(toks) == [json |-> FALSE, text |-> toks, data |-> NoData]
Json(f) == [json |-> TRUE, text |-> <<>>, data |-> Obj(f)]

\* str.lower() on a token.
LowerTok(tok) ==
  CASE tok = "ERROR" -> "error"
    [] tok = "WARN" -> "warn"
    [] tok = "Traceback" -> "traceback"
    [] OTHER -> tok
lower(s) == [i \in DOMAIN s |-> LowerTok(s[i])]

\* `needle in s` for a one-token needle.
Contains(s, needle) == \E i \in DOMAIN s : s[i] = needle

\* ---------------------------------------------------------------- normalizer

PINO_LEVELS_names_only(n) == <<"info">>

PINO_LEVELS(n) ==
  CASE n = 10 -> <<"trace">>
    [] n = 20 -> <<"debug">>
    [] n = 30 -> <<"info">>
    [] n = 40 -> <<"warn">>
    [] n = 50 -> <<"error">>
    [] n = 60 -> <<"fatal">>
    [] OTHER -> <<"info">>

_parse_pino_level(level_value) ==
  IF level_value.t = "int" THEN PINO_LEVELS(level_value.n)
  ELSE IF level_value.t = "str" THEN lower(level_value.s)
  ELSE <<"info">>

\* Unix milliseconds to the instant; the clock of the model counts seconds.
_unix_ms_to_iso(ts) == ts \div 1000

\* str(val) of the first truthy alias, else None (<<>>).
_extract_trace_id(data) ==
  LET order == <<"trace_id", "traceId", "request_id", "requestId", "x_trace_id">>
      hits == {i \in 1..Len(order) : Truthy(data[order[i]])}
  IN IF hits = {} THEN <<>>
     ELSE LET i == CHOOSE i \in hits : \A j \in hits : i <= j
              v == data[order[i]]
          IN IF v.t = "str" THEN v.s ELSE <<"int">>

\* json.dumps(data): the str values of the object in key order.
dumps(data) ==
  <<"{">> \o data["event"].s \o data["msg"].s \o data["message"].s
          \o data["log_level"].s \o data["logging_strategy"].s \o <<"}">>

_extract_message(data) ==
  IF Truthy(data["event"]) THEN
    (IF data["event"].t = "str" THEN data["event"].s ELSE <<"int">>)
  ELSE IF Truthy(data["msg"]) THEN
    (IF data["msg"].t = "str" THEN data["msg"].s ELSE <<"int">>)
  ELSE IF Truthy(data["message"]) THEN
    (IF data["message"].t = "str" THEN data["message"].s ELSE <<"int">>)
  ELSE dumps(data)

_extract_level(data) ==
  IF data["log_level"].t = "str" THEN lower(data["log_level"].s)
  ELSE IF data["level"].t = "int" THEN _parse_pino_level(data["level"])
  ELSE IF data["level"].t = "str" THEN lower(data["level"].s)
  ELSE IF data["levelname"].t = "str" THEN lower(data["levelname"].s)
  ELSE <<"info">>

\* `now` is datetime.now() at the call.
_extract_timestamp(data, now) ==
  IF data["timestamp"].t = "str" THEN data["timestamp"].n
  ELSE IF data["time"].t = "int" THEN _unix_ms_to_iso(data["time"].n)
  ELSE now

\* str.strip(): white space at both ends removed.
RECURSIVE strip(_)
strip(text) ==
  IF text = <<>> THEN <<>>
  ELSE IF text[1] = " " THEN strip(Tail(text))
  ELSE IF text[Len(text)] = " " THEN strip(SubSeq(text, 1, Len(text) - 1))
  ELSE text

\* The token of a text that opens a thousand nested JSON arrays: more than
\* the interpreter's recursion limit lets json.loads descend.
DeepNesting == "[[[["

\* json.loads(raw_line) raises RecursionError, which is no ValueError: the
\* `except (json.JSONDecodeError, ValueError)` of line 133 does not catch it.
normalize_raises(raw_line) ==
  ~raw_line.json /\ raw_line.text # <<>> /\ raw_line.text[1] = DeepNesting

\* raw_line is a stripped body; the empty line is Text(<<>>).
normalize_log_line(raw_line, service, now) ==
  IF ~raw_line.json /\ raw_line.text = <<>> THEN
    [service |-> service, level |-> <<"info">>, timestamp |-> now,
     trace_id |-> <<>>, message |-> <<>>, raw |-> raw_line]
  ELSE IF raw_line.json THEN
    [service |-> service, level |-> _extract_level(raw_line.data),
     timestamp |-> _extract_timestamp(raw_line.data, now),
     trace_id |-> _extract_trace_id(raw_line.data),
     message |-> _extract_message(raw_line.data), raw |-> raw_line]
  ELSE
    LET low == lower(raw_line.text)
        level == IF Contains(low, "error") \/ Contains(low, "traceback")
                      \/ Contains(low, "exception") THEN <<"error">>
                 ELSE IF Contains(low, "warn") THEN <<"warn">>
                 ELSE IF Contains(low, "debug") THEN <<"debug">>
                 ELSE <<"info">>
    IN [service |-> service, level |-> level, timestamp |-> now,
        trace_id |-> <<>>, message |-> raw_line.text, raw |-> raw_line]

\* ------------------------------------------------------------------ scrubber

\* Tokens that one of SCRUB_PATTERNS matches whole.
SecretToks == {"sk-KEY", "AKIAKEY"}
\* The token after "Bearer" that the bearer_token pattern matches.
BearerToks == {"eyJtoken"}

_should_skip_any_strategy(raw) ==
  raw.json /\ raw.data["logging_strategy"].t = "str"

_should_skip_scrubbing(raw) ==
  /\ raw.json
  /\ raw.data["logging_strategy"].t = "str"
  /\ raw.data["logging_strategy"].s \in {<<"redacted">>, <<"partial">>}

\* The tokens of a str follow each other directly. " " is white space and
\* "'" a quote; "Bearer" is the word with the white space after it;
\* "postgres://" a scheme of connection_string; "pwd" a keyword of
\* password_assignment; "=" one of [:=]; "hunter2x" eight characters of a
\* word; "sk-KEY" a key of 23 characters, with no letter or digit after
\* it; "AKIAKEY" a key of 20.

\* How many characters of [^\s"'] a token is, 0 when it has another one.
\* A token that is not listed is a word of at least one character.
plain_chars(tok) ==
  CASE tok = " " -> 0
    [] tok = "'" -> 0
    [] tok = "Bearer" -> 0
    [] tok = "postgres://" -> 11
    [] tok = "pwd" -> 3
    [] tok = "=" -> 1
    [] tok = "hunter2x" -> 8
    [] tok = "[REDACTED]" -> 10
    [] tok = "sk-KEY" -> 23
    [] tok = "AKIAKEY" -> 20
    [] tok = "eyJtoken" -> 20
    [] OTHER -> 1

\* The tokens, from position i on, of the longest run of [^\s"'].
RECURSIVE run_tokens(_, _)
run_tokens(text, i) ==
  IF i > Len(text) \/ plain_chars(text[i]) = 0 THEN 0
  ELSE 1 + run_tokens(text, i + 1)

\* The characters of the n tokens from position i on.
RECURSIVE run_chars(_, _, _)
run_chars(text, i, n) ==
  IF n = 0 THEN 0
  ELSE plain_chars(text[i]) + run_chars(text, i + 1, n - 1)

\* \s* from position i on.
RECURSIVE white_space(_, _)
white_space(text, i) ==
  IF i > Len(text) \/ text[i] # " " THEN 0 ELSE 1 + white_space(text, i + 1)

\* ['"]? at position i.
quote(text, i) == IF i <= Len(text) /\ text[i] = "'" THEN 1 ELSE 0

\* (password|passwd|pwd)\s*[:=]\s*['"]?[^\s'"]{8,}['"]? at position i: the
\* number of tokens of the match, 0 when there is none.
match_password_assignment(text, i) ==
  IF text[i] # "pwd" THEN 0
  ELSE LET a == i + 1 + white_space(text, i + 1)
       IN IF a > Len(text) \/ text[a] # "=" THEN 0
          ELSE LET b == a + 1 + white_space(text, a + 1)
                   c == b + quote(text, b)
                   n == run_tokens(text, c)
               IN IF run_chars(text, c, n) >= 8
                  THEN c + n + quote(text, c + n) - i
                  ELSE 0

\* (postgres|mysql|mongodb|redis|amqp)://[^\s"']{10,} at position i.
match_connection_string(text, i) ==
  IF text[i] # "postgres://" THEN 0
  ELSE LET n == run_tokens(text, i + 1)
       IN IF run_chars(text, i + 1, n) >= 10 THEN 1 + n ELSE 0

\* The patterns of SCRUB_PATTERNS the model has, in the order of the list.
SCRUB_PATTERNS == <<"openai_key", "bearer_token", "connection_string",
                    "password_assignment", "aws_access_key">>

\* pattern.match at position i: the number of tokens matched, 0 for none.
pattern_match(name, text, i) ==
  CASE name = "openai_key" ->
         IF text[i] = "sk-KEY" THEN 1 ELSE 0
    [] name = "bearer_token" ->
         IF text[i] = "Bearer" /\ i < Len(text) /\ text[i + 1] \in BearerToks
         THEN 2 ELSE 0
    [] name = "connection_string" -> match_connection_string(text, i)
    [] name = "password_assignment" -> match_password_assignment(text, i)
    [] name = "aws_access_key" -> IF text[i] = "AKIAKEY" THEN 1 ELSE 0

\* pattern.search(text) finds a match.
pattern_search(name, text) ==
  \E i \in DOMAIN text : pattern_match(name, text, i) > 0

\* pattern.sub(..., text): the matches from left to right, none overlapping.
RECURSIVE pattern_sub(_, _, _)
pattern_sub(name, text, i) ==
  IF i > Len(text) THEN <<>>
  ELSE LET n == pattern_match(name, text, i)
       IN IF n = 0 THEN <<text[i]>> \o pattern_sub(name, text, i + 1)
          ELSE (IF name = "bearer_token" THEN <<"Bearer", "[REDACTED]">>
                ELSE <<"[REDACTED]">>) \o pattern_sub(name, text, i + n)

\* The loop of scrub over the patterns from the k-th on.
RECURSIVE scrub_from(_, _)
scrub_from(k, text) ==
  IF k > Len(SCRUB_PATTERNS) THEN text
  ELSE scrub_from(k + 1, pattern_sub(SCRUB_PATTERNS[k], text, 1))

\* The loop of scrub over all patterns: each one applied to the result of
\* the one before.
sub_patterns(text) == scrub_from(1, text)

\* scrub(text, raw) for a str.
scrub(text, raw) ==
  IF _should_skip_scrubbing(raw) THEN text ELSE sub_patterns(text)

\* scrub(raw, raw): the patterns applied to the raw line, which for a JSON
\* line is its text, so to every str value in it.
scrub_raw(raw) ==
  IF _should_skip_scrubbing(raw) THEN raw
  ELSE [json |-> raw.json, text |-> sub_patterns(raw.text),
        data |-> [k \in Keys |->
                    IF raw.data[k].t = "str"
                    THEN [raw.data[k] EXCEPT !.s = sub_patterns(@)]
                    ELSE raw.data[k]]]

scrub_entry_skip(entry) == entry

scrub_entry(entry) ==
  IF _should_skip_scrubbing(entry.raw) THEN entry
  ELSE [entry EXCEPT !.message = scrub(entry.message, entry.raw),
                     !.raw = scrub_raw(entry.raw)]

\* --------------------------------------------------------------------- state

VARIABLES
  clock,        \* the wall clock, datetime.now()
  stop_event,   \* collector._stop_event
  life,         \* lifespan of main.py: "up", "stopping", "closed"
  pc,           \* each tailer thread's position in _tail_container
  batch,        \* each tailer's local batch
  nread,        \* lines each tailer has received from its stream
  conn,         \* db._conn: "none" or "open"
  logs,         \* rows of table logs, as the shared connection sees them
  seq,          \* sqlite_sequence of logs (AUTOINCREMENT)
  pending,      \* ids inserted in the connection's open transaction
  fts,          \* index logs_fts: <<rowid, message>>
  subscribers,  \* collector._subscribers
  queue,        \* content of each asyncio.Queue
  sess,         \* each live-tail session: "new", "open", "ended" (unsubscribed),
                \* "again" (unsubscribe called once more)
  result,       \* what the last call of the store returned, if it was search_logs
  query,        \* the arguments of that search_logs
  ctx,          \* the last call of the context endpoint and its answer
  listed,       \* the last call of the services endpoint and its answer
  last_purge,   \* the last delete_old_logs: its argument, the rows it met, its return
  delivered,    \* history: what each session has dequeued
  accepted,     \* history: receipt ids each tailer appended to its batch
  committed,    \* history: receipt ids of rows ever committed
  published,    \* history: receipt ids ever passed to _notify_subscribers
  batches,      \* history: each insert_logs_batch call, its receipt ids and outcome
  assigned,     \* history: row ids in the order they were assigned
  nfail,        \* store failures so far
  ncalls,       \* insert calls so far (store alone)
  npurge,       \* retention purges so far
  pub,          \* the _notify_subscribers call in progress (holder of _sub_lock)
  offered,      \* history: per queue, the entries published while it was registered
  last_overflow,\* history: the last put that met a full queue, and how it ended
  npub,         \* entries published so far (broadcaster alone)
  sent,         \* history: the batches given to _notify_subscribers, in call order
  inventory,    \* the running containers, what client.containers.list() returns
  mon,          \* _monitor_containers: its position, self_hostname, self_id
  active,       \* its dict active: per container id a thread, 0 when absent
  threads,      \* every tailer thread started: its container, since, is_alive()
  poll_ok,      \* whether the last pass of the supervisor's loop raised nothing
  npolls,       \* passes of the supervisor's loop so far
  scrubbed,     \* the last call of scrub_entry: <<entry, result>>
  normalized,   \* the last call of normalize_log_line: <<line, service, now, outcome>>
  stripped,     \* the last line a tailer took apart: <<line, docker_ts, payload>>
  recorded,     \* the last line a tailer made a record of: <<line, now1, now2, entry>>
  resolved,     \* the last call of _get_service_name: <<container, service>>
  ret,          \* start_retention_loop: its position, _running, settings, wake-up time
  cycle,        \* the _run_cleanup call in progress or last made
  gen,          \* each session's event_generator: position, filter, keep-alives, end
  lock,         \* db._lock: the thread holding it, 0 when free
  calls         \* each thread's call of a db.py function: its position and the function

store_vars == <<conn, logs, seq, pending, fts>>
hist_vars == <<committed, batches, assigned, last_purge>>
tail_vars == <<pc, batch, nread, accepted, published>>
sub_vars == <<subscribers, queue, sess, delivered>>
search_vars == <<result, query, ctx, listed>>
bound_vars == <<nfail, ncalls, npurge>>
bc_vars == <<pub, offered, last_overflow, npub, sent>>
mon_vars == <<inventory, mon, active, threads, poll_ok, npolls>>
fn_vars == <<scrubbed, normalized, stripped, recorded, resolved>>
ret_vars == <<ret, cycle>>
sse_vars == <<gen>>
lock_vars == <<lock, calls>>
aux_vars == <<bc_vars, mon_vars, fn_vars, ret_vars, sse_vars, lock_vars>>
vars == <<clock, stop_event, life, store_vars, hist_vars, tail_vars,
          sub_vars, search_vars, bound_vars, aux_vars>>

\* The containers of the runtime; the collector's process runs in the first.
Containers == 1..NContainers
SelfContainer == 1

\* _monitor_containers before it has run: no client, no host name, no self_id.
NoMonitor == [pc |-> "start", self_hostname |-> <<>>, self_id |-> 0]

\* The arguments when the last call was no search_logs.
NoQuery == [q |-> <<>>, service |-> <<>>, level |-> <<>>, from_ts |-> 0,
            to_ts |-> 0, trace_id |-> <<>>, limit |-> 0, offset |-> 0]

\* --------------------------------------------------------------------- store

Ids(rows) == {r.id : r \in rows}
MaxId(rows) == IF rows = {} THEN 0
               ELSE CHOOSE m \in Ids(rows) : \A i \in Ids(rows) : i <= m

\* Without AUTOINCREMENT a rowid is one more than the largest in the table.
next_rowid_reuse(rows, s) == MaxId(rows) + 1

\* INTEGER PRIMARY KEY AUTOINCREMENT: one more than the largest rowid the
\* table has ever held, which sqlite_sequence records.
next_rowid(rows, s) == Max(s, MaxId(rows)) + 1

new_rows_reversed(items, k) ==
  {[id |-> next_rowid(logs, seq) + k - i, entry |-> items[i].entry,
    src |-> items[i].src] : i \in 1..k}

\* The rows that inserting the first k of `items` adds, in order.
new_rows(items, k) ==
  {[id |-> next_rowid(logs, seq) + i - 1, entry |-> items[i].entry,
    src |-> items[i].src] : i \in 1..k}

logs_ai_none(index, rows) == index

\* Trigger logs_ai: mirror (id, message) of each inserted row.
logs_ai(index, rows) == index \cup {<<r.id, r.entry.message>> : r \in rows}

\* Trigger logs_ad: the FTS 'delete' command for each deleted row.
logs_ad(index, rows) == index \ {<<r.id, r.entry.message>> : r \in rows}

\* INSERT INTO logs_fts(logs_fts) VALUES ('rebuild').
fts_rebuild(rows) == {<<r.id, r.entry.message>> : r \in rows}

IdSeq(first, k) == [i \in 1..k |-> first + i - 1]

\* conn.execute(INSERT ...) / executemany of the first k items: the rows join
\* the connection's open transaction.
execute_insert(items, k) ==
  LET rows == new_rows(items, k)
  IN /\ logs' = logs \cup rows
     /\ seq' = IF k = 0 THEN seq ELSE next_rowid(logs, seq) + k - 1
     /\ fts' = logs_ai(fts, rows)
     /\ assigned' = assigned \o IdSeq(next_rowid(logs, seq), k)

\* conn.commit() after the statements above added `rows`.
commit(rows) ==
  /\ pending' = {}
  /\ committed' = committed \cup {r.src : r \in rows}
                    \cup {r.src : r \in {x \in logs : x.id \in pending}}

insert_log(item) ==
  /\ conn' = "open"
  /\ execute_insert(<<item>>, 1)
  /\ commit(new_rows(<<item>>, 1))
  /\ UNCHANGED <<batches, last_purge>>

\* insert_logs_batch(entries) returning normally.
insert_logs_batch(items) ==
  IF items = <<>> THEN UNCHANGED <<store_vars, hist_vars>>
  ELSE /\ conn' = "open"
       /\ execute_insert(items, Len(items))
       /\ commit(new_rows(items, Len(items)))
       /\ batches' = batches \cup
            {[srcs |-> {items[i].src : i \in DOMAIN items}, raised |-> FALSE]}
       /\ UNCHANGED last_purge

\* insert_logs_batch(entries) raising at its k-th entry: executemany has
\* inserted k-1 rows, the exception leaves `with _lock` and nothing
\* commits or rolls back.
insert_logs_batch_raises(items, k) ==
  /\ conn' = "open"
  /\ execute_insert(items, k - 1)
  /\ pending' = pending \cup Ids(new_rows(items, k - 1))
  /\ batches' = batches \cup
       {[srcs |-> {items[i].src : i \in DOMAIN items}, raised |-> TRUE]}
  /\ UNCHANGED <<committed, last_purge>>

delete_old_logs_inclusive(before_timestamp) ==
  LET gone == {r \in logs : r.entry.timestamp <= before_timestamp}
      deleted == Cardinality(gone)
  IN /\ conn' = "open"
     /\ logs' = logs \ gone
     /\ fts' = IF deleted > 0 THEN fts_rebuild(logs \ gone)
               ELSE logs_ad(fts, gone)
     /\ pending' = {}
     /\ committed' = committed
          \cup {r.src : r \in {x \in logs \ gone : x.id \in pending}}
     /\ last_purge' = [before |-> before_timestamp, had |-> logs,
                        deleted |-> deleted]
     /\ UNCHANGED <<seq, batches, assigned>>

delete_old_logs(before_timestamp) ==
  LET gone == {r \in logs : r.entry.timestamp < before_timestamp}
      deleted == Cardinality(gone)
  IN /\ conn' = "open"
     /\ logs' = logs \ gone
     /\ fts' = IF deleted > 0 THEN fts_rebuild(logs \ gone)
               ELSE logs_ad(fts, gone)
     /\ pending' = {}
     /\ committed' = committed
          \cup {r.src : r \in {x \in logs \ gone : x.id \in pending}}
     /\ last_purge' = [before |-> before_timestamp, had |-> logs,
                        deleted |-> deleted]
     /\ UNCHANGED <<seq, batches, assigned>>

\* close_db(): closing the connection rolls its open transaction back.
close_db ==
  /\ conn' = "none"
  /\ IF conn = "open" /\ pending # {}
     THEN LET kept == {r \in logs : r.id \notin pending}
              first == CHOOSE m \in pending : \A i \in pending : m <= i
          IN /\ logs' = kept
             /\ fts' = {e \in fts : e[1] \notin pending}
             /\ seq' = first - 1
     ELSE UNCHANGED <<logs, fts, seq>>
  /\ pending' = {}
  /\ UNCHANGED hist_vars

\* --------------------------------------------------------------- broadcaster

\* q.put_nowait(entry), and on QueueFull q.get_nowait() then q.put_nowait(entry).
put_drop_oldest(content, item) ==
  IF Len(content) >= maxsize THEN Append(Tail(content), item)
  ELSE Append(content, item)

RECURSIVE put_all(_, _)
put_all(content, items) ==
  IF items = <<>> THEN content
  ELSE put_all(put_drop_oldest(content, Head(items)), Tail(items))

\* _notify_subscribers(entries), under _sub_lock.
_notify_subscribers(items) ==
  /\ queue' = [q \in DOMAIN queue |->
                 IF q \in subscribers THEN put_all(queue[q], items)
                 ELSE queue[q]]
  /\ published' = published \cup {items[i].src : i \in DOMAIN items}
  /\ UNCHANGED <<subscribers, sess, delivered>>

\* subscribe() at the start of a live-tail session (api.stream).
subscribe(q) ==
  /\ sess[q] = "new"
  /\ sess' = [sess EXCEPT ![q] = "open"]
  /\ subscribers' = subscribers \cup {q}
  /\ UNCHANGED <<queue, delivered>>
  /\ UNCHANGED <<clock, stop_event, life, store_vars, hist_vars, tail_vars,
                 search_vars, aux_vars, bound_vars>>

\* queue.get() in the session's event_generator.
stream_get(q) ==
  /\ sess[q] = "open"
  /\ queue[q] # <<>>
  /\ delivered' = [delivered EXCEPT ![q] = Append(@, Head(queue[q]))]
  /\ queue' = [queue EXCEPT ![q] = Tail(@)]
  /\ UNCHANGED <<subscribers, sess>>
  /\ UNCHANGED <<clock, stop_event, life, store_vars, hist_vars, tail_vars,
                 search_vars, aux_vars, bound_vars>>

\* unsubscribe(queue) in the session's finally.
unsubscribe(q) ==
  /\ sess[q] = "open"
  /\ sess' = [sess EXCEPT ![q] = "ended"]
  /\ subscribers' = subscribers \ {q}
  /\ UNCHANGED <<queue, delivered>>
  /\ UNCHANGED <<clock, stop_event, life, store_vars, hist_vars, tail_vars,
                 search_vars, aux_vars, bound_vars>>

\* -------------------------------------------------------------------- tailer

\* What a container stream can deliver at instant `now`, decoded and stripped.
StreamLines(now) ==
  { [pfx |-> 0, long |-> FALSE, body |-> Text(<<>>)],
    [pfx |-> now, long |-> TRUE, body |-> Text(<<"ERROR", "sk-KEY">>)],
    [pfx |-> 0, long |-> TRUE,
     body |-> Json([event |-> PyStr(<<"Bearer", "eyJtoken">>),
                    logging_strategy |-> PyStr(<<"redacted">>),
                    timestamp |-> IsoStr(1)])] }

\* _get_service_name(container) of the container tailer t reads.
Service(t) == IF t = 1 THEN <<"dispatcher">> ELSE <<"einbroch">>

\* The body of a line with its runtime prefix left in: it is no JSON.
Unstripped(line) ==
  Text(<<"2025T">> \o (IF line.body.json THEN dumps(line.body.data)
                       ELSE line.body.text))

\* Line 76, for a line whose first space follows a digit and a "T" (pfx is
\* the instant that prefix denotes, 0 without one): the prefix is taken off
\* only if len(line) > 30.
has_prefix(line) == line.long /\ line.pfx # 0

\* docker_ts of lines 75-79, 0 for None.
docker_ts_of(line) == IF has_prefix(line) THEN line.pfx ELSE 0

\* What line 82 passes to normalize_log_line.
payload_of(line) ==
  IF has_prefix(line) \/ line.pfx = 0 THEN line.body ELSE Unstripped(line)

\* Lines 73-88 of _tail_container for a non-empty line: now1 and now2 are
\* the wall clock at the two calls of normalize_log_line.
tail_entry(line, service, now1, now2) ==
  LET docker_ts == docker_ts_of(line)
      payload == payload_of(line)
      entry == normalize_log_line(payload, service, now1)
      fallback == /\ docker_ts # 0
                  /\ entry.timestamp
                       = normalize_log_line(Text(<<>>), service, now2).timestamp
      stamped == IF fallback THEN [entry EXCEPT !.timestamp = docker_ts]
                 ELSE entry
  IN scrub_entry(stamped)

RECURSIVE SumTo(_, _)
SumTo(f, n) == IF n = 0 THEN 0 ELSE f[n] + SumTo(f, n - 1)
LinesRead == SumTo(nread, NTailers)

\* The loop is left (break, or the stream ended): "Flush remaining".
AfterLoop(t) == IF batch[t] # <<>> THEN "flush_insert" ELSE "done"

\* The supervisor starts the tailer thread of a running container.
start_tailer(t) ==
  /\ pc[t] = "idle"
  /\ ~stop_event
  /\ pc' = [pc EXCEPT ![t] = "read"]
  /\ UNCHANGED <<batch, nread, accepted, published>>
  /\ UNCHANGED <<clock, stop_event, life, store_vars, hist_vars, sub_vars,
                 search_vars, aux_vars, bound_vars>>

batch_over(local) == Len(local) > batch_size

\* Line 91: `if len(batch) >= batch_size`.
batch_full(local) == Len(local) >= batch_size

\* One iteration of `for line_bytes in container.logs(...)`; now1 and now2
\* are the wall clock at the two calls of normalize_log_line.
tail_line(t, line, now1, now2) ==
  /\ pc[t] = "read"
  /\ LinesRead < MaxLines
  /\ clock <= now1 /\ now1 <= now2
  /\ nread' = [nread EXCEPT ![t] = @ + 1]
  /\ IF stop_event THEN
       /\ pc' = [pc EXCEPT ![t] = AfterLoop(t)]
       /\ UNCHANGED <<batch, accepted, clock>>
     ELSE IF line.body = Text(<<>>) /\ line.pfx = 0 THEN
       UNCHANGED <<pc, batch, accepted, clock>>
     ELSE
       LET item == [entry |-> tail_entry(line, Service(t), now1, now2),
                    src |-> <<t, nread[t] + 1>>]
       IN /\ batch' = [batch EXCEPT ![t] = Append(@, item)]
          /\ accepted' = [accepted EXCEPT ![t] = Append(@, item.src)]
          /\ pc' = [pc EXCEPT ![t] =
                      IF batch_full(Append(batch[t], item)) THEN "insert"
                      ELSE "read"]
          /\ clock' = now2
  /\ UNCHANGED published
  /\ UNCHANGED <<stop_event, life, store_vars, hist_vars, sub_vars,
                 search_vars, aux_vars, bound_vars>>

\* The stream ends: the for loop is left normally.
tail_eof(t) ==
  /\ pc[t] = "read"
  /\ pc' = [pc EXCEPT ![t] = AfterLoop(t)]
  /\ UNCHANGED <<batch, nread, accepted, published>>
  /\ UNCHANGED <<clock, stop_event, life, store_vars, hist_vars, sub_vars,
                 search_vars, aux_vars, bound_vars>>

\* The stream read raises: control goes to `except Exception`, past the
\* flush of the remaining batch.
tail_error(t) ==
  /\ pc[t] = "read"
  /\ pc' = [pc EXCEPT ![t] = "done"]
  /\ UNCHANGED <<batch, nread, accepted, published>>
  /\ UNCHANGED <<clock, stop_event, life, store_vars, hist_vars, sub_vars,
                 search_vars, aux_vars, bound_vars>>

tail_insert_skipped(t) ==
  /\ pc[t] \in {"insert", "flush_insert"}
  /\ pc' = [pc EXCEPT ![t] = IF pc[t] = "insert" THEN "publish"
                             ELSE "flush_publish"]
  /\ UNCHANGED <<batch, nread, accepted, published>>
  /\ UNCHANGED <<clock, stop_event, life, store_vars, hist_vars, sub_vars,
                 search_vars, aux_vars, bound_vars>>

\* insert_logs_batch(batch) returns.
tail_insert(t) ==
  /\ pc[t] \in {"insert", "flush_insert"}
  /\ insert_logs_batch(batch[t])
  /\ pc' = [pc EXCEPT ![t] = IF pc[t] = "insert" THEN "publish"
                             ELSE "flush_publish"]
  /\ UNCHANGED <<batch, nread, accepted, published>>
  /\ UNCHANGED <<clock, stop_event, life, sub_vars, search_vars, aux_vars, bound_vars>>

\* insert_logs_batch(batch) raises: `except Exception` ends the tailer.
tail_insert_raises(t, k) ==
  /\ pc[t] \in {"insert", "flush_insert"}
  /\ nfail < MaxFail
  /\ k \in 1..Len(batch[t])
  /\ insert_logs_batch_raises(batch[t], k)
  /\ nfail' = nfail + 1
  /\ pc' = [pc EXCEPT ![t] = "done"]
  /\ UNCHANGED <<batch, nread, accepted, published>>
  /\ UNCHANGED <<clock, stop_event, life, sub_vars, search_vars, aux_vars, ncalls,
                 npurge>>

after_flush_kept(local) == local

\* Line 95: `batch = []`.
after_flush(local) == <<>>

\* _notify_subscribers(batch), then `batch = []` inside the loop.
tail_publish(t) ==
  /\ pc[t] \in {"publish", "flush_publish"}
  /\ _notify_subscribers(batch[t])
  /\ pc' = [pc EXCEPT ![t] = IF pc[t] = "publish" THEN "read" ELSE "done"]
  /\ batch' = [batch EXCEPT ![t] = IF pc[t] = "publish" THEN after_flush(@)
                                    ELSE @]
  /\ UNCHANGED <<nread, accepted>>
  /\ UNCHANGED <<clock, stop_event, life, store_vars, hist_vars, search_vars, aux_vars,
                 bound_vars>>

\* --------------------------------------------------- retention and lifespan

\* _run_cleanup() at instant `now`: delete_old_logs(cutoff) with
\* cutoff = now - retention.
run_cleanup(now, cutoff) ==
  /\ life = "up"
  /\ npurge < MaxPurge
  /\ clock <= now /\ cutoff <= now
  /\ delete_old_logs(cutoff)
  /\ npurge' = npurge + 1
  /\ clock' = now
  /\ UNCHANGED <<stop_event, life, tail_vars, sub_vars, search_vars, aux_vars,
                 nfail, ncalls>>

\* lifespan after `yield`: stop_collector(), stop_retention_loop() and the
\* cancellation of both tasks.
stop_collector ==
  /\ life = "up"
  /\ life' = "stopping"
  /\ stop_event' = TRUE
  /\ UNCHANGED <<clock, store_vars, hist_vars, tail_vars, sub_vars,
                 search_vars, aux_vars, bound_vars>>

\* lifespan: close_db(), which no join of the tailer threads precedes.
shutdown_close ==
  /\ life = "stopping"
  /\ life' = "closed"
  /\ close_db
  /\ UNCHANGED <<clock, stop_event, tail_vars, sub_vars, search_vars, aux_vars,
                 bound_vars>>

\* After init_db() in lifespan.
\* No _notify_subscribers call holds _sub_lock.
NoPublish == [pc |-> "idle", batch |-> <<>>, qs |-> <<>>, ei |-> 0]

\* No put has met a full queue.
NoOverflow == [q |-> 0, src |-> <<0, 0>>, discarded |-> 0, enqueued |-> FALSE,
               done |-> FALSE]

\* No context call since the last change of the store.
NoContext == [log_id |-> 0, lines |-> 0, entries |-> <<>>, status |-> 0]

\* No services call since the last change of the store.
NoServices == [called |-> FALSE, services |-> <<>>]

\* The retention task before start_retention_loop runs.
NoRetention == [pc |-> "new", running |-> TRUE, days |-> 0, mb |-> 0,
                interval |-> 0, wake |-> 0, cycles |-> 0, errors |-> 0]

\* event_generator of a session before its first step.
NoGenerator == [pc |-> "new", service |-> <<>>, keepalives |-> 0, cause |-> "none"]

\* A thread that is in no function of db.py.
NoCall == [pc |-> "idle", op |-> "none"]

\* No _run_cleanup so far.
NoCycle == [now |-> 0, cutoff |-> 0, left |-> {}, measured |-> FALSE,
            db_size |-> 0, exceeded |-> FALSE, purged |-> FALSE, now2 |-> 0,
            aggressive_cutoff |-> 0, left2 |-> {}]

\* No delete_old_logs so far.
NoPurge == [before |-> 0, had |-> {}, deleted |-> 0]

Init ==
  /\ clock = 1
  /\ stop_event = FALSE
  /\ life = "up"
  /\ pc = [t \in Tailers |-> "idle"]
  /\ batch = [t \in Tailers |-> <<>>]
  /\ nread = [t \in Tailers |-> 0]
  /\ conn = "open"
  /\ logs = {}
  /\ seq = 0
  /\ pending = {}
  /\ fts = {}
  /\ subscribers = {}
  /\ queue = [q \in AllQueues |-> <<>>]
  /\ sess = [q \in AllQueues |-> "new"]
  /\ result = <<>>
  /\ query = NoQuery
  /\ ctx = NoContext
  /\ listed = NoServices
  /\ last_purge = NoPurge
  /\ delivered = [q \in AllQueues |-> <<>>]
  /\ accepted = [t \in Tailers |-> <<>>]
  /\ committed = {}
  /\ published = {}
  /\ batches = {}
  /\ assigned = <<>>
  /\ nfail = 0
  /\ ncalls = 0
  /\ npurge = 0
  /\ pub = NoPublish
  /\ offered = [q \in AllQueues |-> <<>>]
  /\ last_overflow = NoOverflow
  /\ npub = 0
  /\ sent = <<>>
  /\ inventory = {SelfContainer}
  /\ mon = NoMonitor
  /\ active = [c \in Containers |-> 0]
  /\ threads = <<>>
  /\ poll_ok = TRUE
  /\ npolls = 0
  /\ scrubbed = <<>>
  /\ normalized = <<>>
  /\ stripped = <<>>
  /\ recorded = <<>>
  /\ resolved = <<>>
  /\ ret = NoRetention
  /\ cycle = NoCycle
  /\ gen = [q \in AllQueues |-> NoGenerator]
  /\ lock = 0
  /\ calls = [c \in 1..NCallers |-> NoCall]

Next ==
  \/ \E t \in Tailers : start_tailer(t)
  \/ \E t \in Tailers : \E now1, now2 \in Times :
       \E line \in StreamLines(now1) : tail_line(t, line, now1, now2)
  \/ \E t \in Tailers : tail_eof(t)
  \/ \E t \in Tailers : tail_error(t)
  \/ \E t \in Tailers : tail_insert(t)
  \/ \E t \in Tailers : \E k \in 1..batch_size : tail_insert_raises(t, k)
  \/ \E t \in Tailers : tail_publish(t)
  \/ \E q \in Queues : subscribe(q)
  \/ \E q \in Queues : stream_get(q)
  \/ \E q \in Queues : unsubscribe(q)
  \/ \E now, c \in Times : run_cleanup(now, c)
  \/ stop_collector
  \/ shutdown_close

Spec == Init /\ [][Next]_vars

TypeOK ==
  /\ clock \in Times
  /\ \A t \in Tailers : Len(batch[t]) <= batch_size
  /\ \A q \in Queues : Len(queue[q]) <= maxsize

\* -------------------------------------------------------------------- search

\* logs_fts MATCH q: every term of q occurs in the indexed message.
fts_match(message, q) == \A i \in DOMAIN q : Contains(message, q[i])

\* The WHERE clause search_logs composes; an argument that is None or ""
\* (a falsy str) adds no condition.
where_rows_open_interval(q, service, level, from_ts, to_ts, trace_id) ==
  {r \in logs :
     /\ q # <<>> => r.id \in {e[1] : e \in {x \in fts : fts_match(x[2], q)}}
     /\ service # <<>> => r.entry.service = service
     /\ level # <<>> => r.entry.level = level
     /\ from_ts # 0 => r.entry.timestamp > from_ts
     /\ to_ts # 0 => r.entry.timestamp < to_ts
     /\ trace_id # <<>> => r.entry.trace_id = trace_id}

where_rows(q, service, level, from_ts, to_ts, trace_id) ==
  {r \in logs :
     /\ q # <<>> => r.id \in {e[1] : e \in {x \in fts : fts_match(x[2], q)}}
     /\ service # <<>> => r.entry.service = service
     /\ level # <<>> => r.entry.level = level
     /\ from_ts # 0 => r.entry.timestamp >= from_ts
     /\ to_ts # 0 => r.entry.timestamp <= to_ts
     /\ trace_id # <<>> => r.entry.trace_id = trace_id}

Latest(rows) == {r \in rows : \A x \in rows : x.entry.timestamp <= r.entry.timestamp}

\* The plan SQLite takes for the query: with no q and no equality condition
\* it walks idx_logs_timestamp backwards; with q, service, level or trace_id
\* it looks the rows up (by rowid or by the index of the column, both in
\* ascending rowid) and sorts them in a temporary b-tree.
temp_btree_for_order_by(q, service, level, trace_id) ==
  q # <<>> \/ service # <<>> \/ level # <<>> \/ trace_id # <<>>

\* The row that comes first among rows of equal timestamp: the query says
\* ORDER BY timestamp DESC and nothing about ids, so the plan decides.  The
\* backward index walk yields the highest id first, the temporary b-tree keeps
\* the rows in the order they were looked up, lowest id first.
first_of_ties(rows, sorter) ==
  IF sorter THEN CHOOSE r \in rows : \A x \in rows : r.id <= x.id
  ELSE CHOOSE r \in rows : \A x \in rows : r.id >= x.id

\* ORDER BY timestamp DESC
RECURSIVE order_by_timestamp_desc(_, _)
order_by_timestamp_desc(rows, sorter) ==
  IF rows = {} THEN <<>>
  ELSE LET r == first_of_ties(Latest(rows), sorter)
       IN <<r>> \o order_by_timestamp_desc(rows \ {r}, sorter)

page_skipping_one(s, limit, offset) ==
  SubSeq(s, offset + 2, Min(Len(s), offset + 1 + limit))

\* LIMIT ? OFFSET ?
page(s, limit, offset) == SubSeq(s, offset + 1, Min(Len(s), offset + limit))

\* What search_logs returns on the current store.
search_logs(q, service, level, from_ts, to_ts, trace_id, limit, offset) ==
  page(order_by_timestamp_desc(
         where_rows(q, service, level, from_ts, to_ts, trace_id),
         temp_btree_for_order_by(q, service, level, trace_id)),
       limit, offset)

\* ------------------------------------------------------------------- context

\* ORDER BY id ASC
RECURSIVE order_by_id_asc(_)
order_by_id_asc(rows) ==
  IF rows = {} THEN <<>>
  ELSE LET r == CHOOSE x \in rows : \A y \in rows : x.id <= y.id
       IN <<r>> \o order_by_id_asc(rows \ {r})

\* list(reversed(...))
reversed(s) == [i \in DOMAIN s |-> s[Len(s) + 1 - i]]

order_by_id_unreversed(rows) == order_by_id_asc(rows)

\* ORDER BY id DESC
order_by_id_desc(rows) == reversed(order_by_id_asc(rows))

\* LIMIT n
limit_rows(s, n) == SubSeq(s, 1, Min(Len(s), n))

half_wrong(context_lines) == context_lines

half(context_lines) == context_lines \div 2

get_log_context(log_id, context_lines) ==
  LET target == {r \in logs : r.id = log_id}
  IN IF target = {} THEN <<>>
     ELSE LET service == (CHOOSE r \in target : TRUE).entry.service
              before == limit_rows(
                          order_by_id_desc({r \in logs : r.entry.service = service
                                                         /\ r.id < log_id}),
                          half(context_lines))
              current == order_by_id_asc(target)
              after == limit_rows(
                         order_by_id_asc({r \in logs : r.entry.service = service
                                                       /\ r.id > log_id}),
                         half(context_lines))
          IN reversed(before) \o current \o after

context_found(results) == 200

\* The status the context endpoint answers with.
context_status(results) == IF results = <<>> THEN 404 ELSE 200

\* ------------------------------------------------------------ the store alone

\* Largest `lines` a context call is made with (200 at the endpoint).
MaxContextLines == 3
\* Largest log_id a context call is made with.
MaxLogId == 5

\* Largest limit and offset a search is called with.
MaxLimit == 2
\* Rows the table holds at most in a run of the store alone.
MaxRows == 4

Entry(service, level, timestamp, trace_id, message) ==
  [service |-> service, level |-> level, timestamp |-> timestamp,
   trace_id |-> trace_id, message |-> message, raw |-> Text(<<"{}">>)]

\* Entries the callers of the store insert.
StoreEntries ==
  { Entry(<<"dispatcher">>, <<"info">>, 1, <<>>, <<"pipeline", "started">>),
    Entry(<<"dispatcher">>, <<"error">>, 2, <<"t1">>, <<"pipeline", "failed">>),
    Entry(<<"einbroch">>, <<"error">>, 2, <<>>, <<"tool", "failed">>) }

\* Batches the callers of the store insert.
StoreBatches ==
  { <<Entry(<<"dispatcher">>, <<"info">>, 1, <<>>, <<"pipeline", "started">>),
      Entry(<<"dispatcher">>, <<"error">>, 2, <<"t1">>, <<"pipeline", "failed">>)>>,
    <<Entry(<<"einbroch">>, <<"error">>, 2, <<>>, <<"tool", "failed">>),
      Entry(<<"dispatcher">>, <<"error">>, 2, <<"t1">>, <<"pipeline", "failed">>)>> }

\* The n-th item of the call in progress: its receipt id is <<0, ...>>.
StoreItem(entry, n) == [entry |-> entry, src |-> <<0, 2 * ncalls + n>>]

\* The place of a service name in the byte order of SQLite's BINARY collation.
collation_rank(service) ==
  CASE service = <<>> -> 0
    [] service = <<"dispatcher">> -> 1
    [] service = <<"einbroch">> -> 2
    [] service = <<"memlink">> -> 3
    [] OTHER -> 4

order_by_service_desc(names) ==
  CHOOSE out \in [1..Cardinality(names) -> names] :
    /\ \A i, j \in DOMAIN out : i # j => out[i] # out[j]
    /\ \A i, j \in DOMAIN out :
         i < j => collation_rank(out[i]) > collation_rank(out[j])

\* ORDER BY service: ascending.
order_by_service(names) ==
  CHOOSE out \in [1..Cardinality(names) -> names] :
    /\ \A i, j \in DOMAIN out : i # j => out[i] # out[j]
    /\ \A i, j \in DOMAIN out :
         i < j => collation_rank(out[i]) < collation_rank(out[j])

\* SELECT DISTINCT service FROM logs ORDER BY service
get_services == order_by_service({r.entry.service : r \in logs})

store_frame == UNCHANGED <<clock, stop_event, life, tail_vars, sub_vars, aux_vars>>

\* No call of the store is in progress: the store functions run one at a time
\* under db._lock, and what a read returned is the caller's until it returns.
store_idle == query = NoQuery /\ ctx = NoContext /\ listed = NoServices

\* The read in progress returns to its caller.
store_return ==
  /\ ~store_idle
  /\ result' = <<>> /\ query' = NoQuery /\ ctx' = NoContext
  /\ listed' = NoServices
  /\ store_frame
  /\ UNCHANGED <<store_vars, hist_vars, bound_vars>>

store_insert_log(entry) ==
  /\ store_idle
  /\ ncalls < MaxInserts
  /\ Cardinality(logs) < MaxRows
  /\ insert_log(StoreItem(entry, 1))
  /\ ncalls' = ncalls + 1
  /\ store_frame
  /\ result' = <<>> /\ query' = NoQuery /\ ctx' = NoContext
  /\ listed' = NoServices
  /\ UNCHANGED <<nfail, npurge>>

store_insert_logs_batch(entries) ==
  /\ store_idle
  /\ ncalls < MaxInserts
  /\ Cardinality(logs) + 2 <= MaxRows
  /\ insert_logs_batch(<<StoreItem(entries[1], 1), StoreItem(entries[2], 2)>>)
  /\ ncalls' = ncalls + 1
  /\ store_frame
  /\ result' = <<>> /\ query' = NoQuery /\ ctx' = NoContext
  /\ listed' = NoServices
  /\ UNCHANGED <<nfail, npurge>>

store_insert_logs_batch_raises(entries, k) ==
  /\ store_idle
  /\ ncalls < MaxInserts
  /\ nfail < MaxFail
  /\ Cardinality(logs) + 2 <= MaxRows
  /\ insert_logs_batch_raises(
       <<StoreItem(entries[1], 1), StoreItem(entries[2], 2)>>, k)
  /\ ncalls' = ncalls + 1
  /\ nfail' = nfail + 1
  /\ store_frame
  /\ result' = <<>> /\ query' = NoQuery /\ ctx' = NoContext
  /\ listed' = NoServices
  /\ UNCHANGED npurge

store_delete_old_logs(before_timestamp) ==
  /\ store_idle
  /\ npurge < MaxPurge
  /\ delete_old_logs(before_timestamp)
  /\ npurge' = npurge + 1
  /\ store_frame
  /\ result' = <<>> /\ query' = NoQuery /\ ctx' = NoContext
  /\ listed' = NoServices
  /\ UNCHANGED <<nfail, ncalls>>

store_search_logs(q, service, limit, offset) ==
  /\ store_idle
  /\ result' = search_logs(q, service, <<>>, 0, 0, <<>>, limit, offset)
  /\ query' = [q |-> q, service |-> service, level |-> <<>>, from_ts |-> 0,
               to_ts |-> 0, trace_id |-> <<>>, limit |-> limit,
               offset |-> offset]
  /\ ctx' = NoContext /\ listed' = NoServices
  /\ store_frame
  /\ UNCHANGED <<store_vars, hist_vars, bound_vars>>

\* Filter combinations a search is called with besides q and service.
SearchFilters ==
  { [q |-> <<>>, service |-> <<>>, level |-> <<"error">>, from_ts |-> 0,
     to_ts |-> 0, trace_id |-> <<>>],
    [q |-> <<>>, service |-> <<>>, level |-> <<>>, from_ts |-> 2,
     to_ts |-> 0, trace_id |-> <<>>],
    [q |-> <<>>, service |-> <<>>, level |-> <<>>, from_ts |-> 0,
     to_ts |-> 1, trace_id |-> <<>>],
    [q |-> <<>>, service |-> <<"dispatcher">>, level |-> <<>>, from_ts |-> 1,
     to_ts |-> 2, trace_id |-> <<"t1">>],
    [q |-> <<"failed">>, service |-> <<>>, level |-> <<"error">>, from_ts |-> 2,
     to_ts |-> 2, trace_id |-> <<>>] }

store_search_filtered(f, limit, offset) ==
  /\ store_idle
  /\ result' = search_logs(f.q, f.service, f.level, f.from_ts, f.to_ts,
                           f.trace_id, limit, offset)
  /\ query' = [q |-> f.q, service |-> f.service, level |-> f.level,
               from_ts |-> f.from_ts, to_ts |-> f.to_ts,
               trace_id |-> f.trace_id, limit |-> limit, offset |-> offset]
  /\ ctx' = NoContext /\ listed' = NoServices
  /\ store_frame
  /\ UNCHANGED <<store_vars, hist_vars, bound_vars>>

\* GET /v1/logs/{log_id}/context?lines=
store_context(log_id, lines) ==
  /\ store_idle
  /\ ctx' = [log_id |-> log_id, lines |-> lines,
             entries |-> get_log_context(log_id, lines),
             status |-> context_status(get_log_context(log_id, lines))]
  /\ result' = <<>> /\ query' = NoQuery /\ listed' = NoServices
  /\ store_frame
  /\ UNCHANGED <<store_vars, hist_vars, bound_vars>>

\* GET /v1/logs/services
store_services ==
  /\ store_idle
  /\ listed' = [called |-> TRUE, services |-> get_services]
  /\ result' = <<>> /\ query' = NoQuery /\ ctx' = NoContext
  /\ store_frame
  /\ UNCHANGED <<store_vars, hist_vars, bound_vars>>

QArgs == {<<>>, <<"pipeline">>}
ServiceArgs == {<<>>, <<"dispatcher">>}

NextStore ==
  \/ \E e \in StoreEntries : store_insert_log(e)
  \/ \E entries \in StoreBatches : store_insert_logs_batch(entries)
  \/ \E entries \in StoreBatches : \E k \in 1..2 :
       store_insert_logs_batch_raises(entries, k)
  \/ \E ts \in 1..(MaxTime + 1) : store_delete_old_logs(ts)
  \/ \E q \in QArgs : \E service \in ServiceArgs :
       \E limit \in 1..MaxLimit : \E offset \in 0..1 :
         store_search_logs(q, service, limit, offset)
  \/ \E f \in SearchFilters : \E limit \in 1..MaxLimit : \E offset \in 0..1 :
       store_search_filtered(f, limit, offset)
  \/ \E log_id \in 1..MaxLogId : \E lines \in 1..MaxContextLines :
       store_context(log_id, lines)
  \/ store_services
  \/ store_return

SpecStore == Init /\ [][NextStore]_vars

\* ------------------------------------------------------ the broadcaster alone

\* The live-tail sessions and the tailer threads' calls of _notify_subscribers,
\* step by step: a call holds _sub_lock from its first step to its last, and
\* the session's queue.get() (the event loop thread) takes no lock.

\* The n-th entry published.
BroadcastItem(n) ==
  [entry |-> Entry(<<"dispatcher">>, <<"info">>, 1, <<>>, <<"pipeline", "started">>),
   src |-> <<0, n>>]

\* The entries of a call publishing k entries after npub earlier ones.
BroadcastBatch(k) == [i \in 1..k |-> BroadcastItem(npub + i)]

\* collector._subscribers in list order.
RECURSIVE subscriber_list(_)
subscriber_list(qs) ==
  IF qs = {} THEN <<>>
  ELSE LET q == CHOOSE x \in qs : \A y \in qs : x <= y
       IN <<q>> \o subscriber_list(qs \ {q})

bc_frame == UNCHANGED <<clock, stop_event, life, store_vars, hist_vars,
                        tail_vars, search_vars, bound_vars, mon_vars, fn_vars,
                        ret_vars, sse_vars, lock_vars>>

\* The loops `for q in _subscribers: for entry in entries:` move on.
next_put(p) ==
  IF p.ei < Len(p.batch) THEN [p EXCEPT !.pc = "put", !.ei = p.ei + 1]
  ELSE IF Len(p.qs) > 1 THEN [p EXCEPT !.pc = "put", !.qs = Tail(p.qs), !.ei = 1]
  ELSE NoPublish

sub_lock_ignored(p) == TRUE

\* `with _sub_lock:` can be entered: no _notify_subscribers call holds the lock
\* (subscribe and unsubscribe hold it for one step only).
sub_lock_free(p) == p.pc = "idle"

\* subscribe(): a session registers a fresh queue, under _sub_lock.
bc_subscribe(q) ==
  /\ sub_lock_free(pub)
  /\ sess[q] = "new"
  /\ sess' = [sess EXCEPT ![q] = "open"]
  /\ subscribers' = subscribers \cup {q}
  /\ UNCHANGED <<queue, delivered, bc_vars>>
  /\ bc_frame

unsubscribe_keeping(registered, q) == registered

\* _subscribers.remove(q), ValueError passed over.
unsubscribe_remove(registered, q) == registered \ {q}

\* unsubscribe(q), under _sub_lock, for a queue registered or not.
bc_unsubscribe(q) ==
  /\ sub_lock_free(pub)
  /\ sess[q] \in {"open", "ended"}
  /\ sess' = [sess EXCEPT ![q] = IF @ = "open" THEN "ended" ELSE "again"]
  /\ subscribers' = unsubscribe_remove(subscribers, q)
  /\ UNCHANGED <<queue, delivered, bc_vars>>
  /\ bc_frame

\* _notify_subscribers(entries) takes _sub_lock and starts its loops.
bc_publish(k) ==
  /\ sub_lock_free(pub)
  /\ npub + k <= MaxPublished
  /\ npub' = npub + k
  /\ sent' = Append(sent, BroadcastBatch(k))
  /\ pub' = IF subscribers = {} THEN NoPublish
            ELSE [pc |-> "put", batch |-> BroadcastBatch(k),
                  qs |-> subscriber_list(subscribers), ei |-> 1]
  /\ UNCHANGED <<sub_vars, offered, last_overflow>>
  /\ bc_frame

never_full(content) == FALSE

\* Queue.full()
full(content) == Len(content) >= maxsize

put_at_front(content, item) == <<item>> \o content

\* What q.put_nowait(entry) does to a queue that is not full.
put_nowait(content, item) == Append(content, item)

\* q.put_nowait(entry): appended, or QueueFull raised.
bc_put ==
  /\ pub.pc = "put"
  /\ LET q == Head(pub.qs)
         item == pub.batch[pub.ei]
     IN /\ offered' = [offered EXCEPT ![q] = Append(@, item)]
        /\ IF full(queue[q])
           THEN /\ pub' = [pub EXCEPT !.pc = "get"]
                /\ last_overflow' = [q |-> q, src |-> item.src, discarded |-> 0,
                                     enqueued |-> FALSE, done |-> FALSE]
                /\ UNCHANGED queue
           ELSE /\ queue' = [queue EXCEPT ![q] = put_nowait(@, item)]
                /\ pub' = next_put(pub)
                /\ UNCHANGED last_overflow
  /\ UNCHANGED <<subscribers, sess, delivered, npub, sent>>
  /\ bc_frame

\* In the QueueFull handler, q.get_nowait(): the oldest entry is dropped, or
\* QueueEmpty is raised and passed over, the entry with it.
bc_get_nowait ==
  /\ pub.pc = "get"
  /\ LET q == Head(pub.qs)
     IN IF queue[q] = <<>>
        THEN /\ pub' = next_put(pub)
             /\ last_overflow' = [last_overflow EXCEPT !.done = TRUE]
             /\ UNCHANGED queue
        ELSE /\ queue' = [queue EXCEPT ![q] = Tail(@)]
             /\ pub' = [pub EXCEPT !.pc = "put_again"]
             /\ last_overflow' = [last_overflow EXCEPT !.discarded = @ + 1]
  /\ UNCHANGED <<subscribers, sess, delivered, offered, npub, sent>>
  /\ bc_frame

\* In the QueueFull handler, the second q.put_nowait(entry); a second
\* QueueFull is passed over.
bc_put_again ==
  /\ pub.pc = "put_again"
  /\ LET q == Head(pub.qs)
         item == pub.batch[pub.ei]
     IN IF full(queue[q])
        THEN /\ last_overflow' = [last_overflow EXCEPT !.done = TRUE]
             /\ UNCHANGED queue
        ELSE /\ queue' = [queue EXCEPT ![q] = put_nowait(@, item)]
             /\ last_overflow' = [last_overflow EXCEPT !.done = TRUE,
                                                       !.enqueued = TRUE]
  /\ pub' = next_put(pub)
  /\ UNCHANGED <<subscribers, sess, delivered, offered, npub, sent>>
  /\ bc_frame

\* queue.get() in the session's event_generator, on the event loop thread.
bc_stream_get(q) ==
  /\ sess[q] = "open"
  /\ queue[q] # <<>>
  /\ delivered' = [delivered EXCEPT ![q] = Append(@, Head(queue[q]))]
  /\ queue' = [queue EXCEPT ![q] = Tail(@)]
  /\ UNCHANGED <<subscribers, sess, bc_vars>>
  /\ bc_frame

NextBroadcast ==
  \/ \E q \in AllQueues : bc_subscribe(q)
  \/ \E q \in AllQueues : bc_unsubscribe(q)
  \/ \E k \in 1..2 : bc_publish(k)
  \/ bc_put
  \/ bc_get_nowait
  \/ bc_put_again
  \/ \E q \in AllQueues : bc_stream_get(q)

SpecBroadcast == Init /\ [][NextBroadcast]_vars

\* ------------------------------------------------------ the supervisor alone
\* _monitor_containers with the runtime as its environment: containers start
\* and stop, tailer threads end, the wall clock advances.

\* container.short_id, the first 12 characters of the id. Host names and
\* short ids are sequences of tokens: a container's number stands for its
\* twelve characters, 0 for any text that is no short id.
short_id(c) == <<c>>

\* What socket.gethostname() can return: the short id of the own container
\* (the runtime's default), a name containing it, a configured name; and
\* <<>> for the None of a failed lookup (both are falsy in line 185).
Hostnames == {short_id(SelfContainer), <<0>> \o short_id(SelfContainer),
              <<0>>, <<>>}

\* Python's `needle in hay` for strings.
contains(hay, needle) ==
  \E i \in 0..(Len(hay) - Len(needle)) :
    SubSeq(hay, i + 1, i + Len(needle)) = needle

\* Line 185: the container is taken for the own one.
skip_self(self_hostname, c) ==
  self_hostname # <<>> /\ contains(self_hostname, short_id(c))

tailing_in_active(handles, started, c) == handles[c] # 0

\* Line 192: cid in active and active[cid].is_alive().
tailing(handles, started, c) == handles[c] # 0 /\ started[handles[c]].alive

\* The containers one pass of the loop starts a tailer for.
to_start ==
  {c \in inventory : /\ ~skip_self(mon.self_hostname, c)
                     /\ c # mon.self_id
                     /\ ~tailing(active, threads, c)}

\* The threads one pass starts, in the order of the listing.
RECURSIVE start_threads(_, _, _)
start_threads(cs, now, handles) ==
  IF cs = {} THEN <<>>
  ELSE LET c == CHOOSE x \in cs : \A y \in cs : x <= y
       IN <<[cid |-> c, since |-> now, alive |-> TRUE, prev |-> handles[c]]>>
          \o start_threads(cs \ {c}, now, handles)

\* The thread of a pass that tails container c.
started_for(new, c) == CHOOSE i \in 1..Len(new) : new[i].cid = c

mon_frame == UNCHANGED <<life, store_vars, hist_vars, tail_vars, sub_vars,
                         search_vars, bound_vars, bc_vars, fn_vars, ret_vars,
                         sse_vars, lock_vars>>

\* docker.from_env() succeeds; socket.gethostname() answers or fails.
monitor_connect(hostname) ==
  /\ mon.pc = "start"
  /\ mon' = [mon EXCEPT !.pc = "loop", !.self_hostname = hostname]
  /\ UNCHANGED <<clock, stop_event, inventory, active, threads, poll_ok, npolls>>
  /\ mon_frame

\* docker.from_env() raises DockerException: logged, and the function returns.
monitor_connect_failed ==
  /\ mon.pc = "start"
  /\ mon' = [mon EXCEPT !.pc = "returned"]
  /\ UNCHANGED <<clock, stop_event, inventory, active, threads, poll_ok, npolls>>
  /\ mon_frame

\* One pass of the loop that raises nothing: lines 177-214.
monitor_poll ==
  /\ mon.pc = "loop"
  /\ ~stop_event
  /\ npolls < MaxPolls
  /\ Len(threads) + Cardinality(to_start) <= MaxThreads
  /\ LET new == start_threads(to_start, clock, active)
         own == {c \in inventory : skip_self(mon.self_hostname, c)}
     IN /\ threads' = threads \o new
        /\ active' = [c \in Containers |->
                        IF c \in to_start THEN Len(threads) + started_for(new, c)
                        ELSE IF c \notin inventory THEN 0
                        ELSE active[c]]
        /\ mon' = [mon EXCEPT !.self_id =
                      IF own = {} THEN @
                      ELSE CHOOSE c \in own : \A x \in own : x <= c]
  /\ poll_ok' = TRUE
  /\ npolls' = npolls + 1
  /\ UNCHANGED <<clock, stop_event, inventory>>
  /\ mon_frame

\* client.containers.list() raises: logged (lines 216-218), nothing started.
monitor_poll_failed ==
  /\ mon.pc = "loop"
  /\ ~stop_event
  /\ npolls < MaxPolls
  /\ poll_ok' = FALSE
  /\ npolls' = npolls + 1
  /\ UNCHANGED <<clock, stop_event, inventory, mon, active, threads>>
  /\ mon_frame

\* `while not _stop_event.is_set()` ends the loop.
monitor_return ==
  /\ mon.pc = "loop"
  /\ stop_event
  /\ mon' = [mon EXCEPT !.pc = "returned"]
  /\ UNCHANGED <<clock, stop_event, inventory, active, threads, poll_ok, npolls>>
  /\ mon_frame

\* stop_collector() while the supervisor runs.
monitor_stop_collector ==
  /\ ~stop_event
  /\ stop_event' = TRUE
  /\ UNCHANGED <<clock, mon_vars>>
  /\ mon_frame

\* The runtime starts a container, or starts a stopped one again (same id).
container_started(c) ==
  /\ c \notin inventory
  /\ inventory' = inventory \cup {c}
  /\ UNCHANGED <<clock, stop_event, mon, active, threads, poll_ok, npolls>>
  /\ mon_frame

\* A container other than the collector's own stops.
container_stopped(c) ==
  /\ c \in inventory
  /\ c # SelfContainer
  /\ inventory' = inventory \ {c}
  /\ UNCHANGED <<clock, stop_event, mon, active, threads, poll_ok, npolls>>
  /\ mon_frame

\* _tail_container returns: the stream ended, or an error was logged.
tailer_exits(t) ==
  /\ t <= Len(threads)
  /\ threads[t].alive
  /\ threads' = [threads EXCEPT ![t].alive = FALSE]
  /\ UNCHANGED <<clock, stop_event, inventory, mon, active, poll_ok, npolls>>
  /\ mon_frame

\* datetime.now() advances.
wall_clock_advances ==
  /\ clock <= MaxTime
  /\ clock' = clock + 1
  /\ UNCHANGED <<stop_event, mon_vars>>
  /\ mon_frame

NextMonitor ==
  \/ \E hostname \in Hostnames : monitor_connect(hostname)
  \/ monitor_connect_failed
  \/ monitor_poll
  \/ monitor_poll_failed
  \/ monitor_return
  \/ monitor_stop_collector
  \/ \E c \in Containers : container_started(c)
  \/ \E c \in Containers : container_stopped(c)
  \/ \E t \in 1..MaxThreads : tailer_exits(t)
  \/ wall_clock_advances

SpecMonitor == Init /\ [][NextMonitor]_vars

\* ------------------------------------------------------ the functions alone
\* scrub_entry, normalize_log_line and the prefix handling of _tail_container,
\* each called on inputs of a bounded set.

fn_frame == UNCHANGED <<clock, stop_event, life, store_vars, hist_vars,
                        tail_vars, sub_vars, search_vars, bound_vars,
                        bc_vars, mon_vars, ret_vars, sse_vars, lock_vars>>

ScrubAtoms == {"postgres://", "pwd", "=", " ", "'", "hunter2x", "AKIAKEY"}

\* The texts of at most MaxAtoms tokens that str.strip() leaves as they are.
ScrubTexts ==
  {t \in UNION {[1..n -> ScrubAtoms] : n \in 0..MaxAtoms} :
     t = <<>> \/ (t[1] # " " /\ t[Len(t)] # " ")}

\* Values of the key logging_strategy.
Strategies == {None, PyStr(<<"redacted">>), PyStr(<<"partial">>),
               PyStr(<<"full">>), PyStr(<<"REDACTED">>), PyInt(1)}

\* The lines whose records are given to scrub_entry: free text, and JSON
\* objects with and without a logging_strategy.
ScrubLines ==
  {Text(t) : t \in ScrubTexts}
  \cup {Json([message |-> PyStr(t), logging_strategy |-> st]) :
          t \in {<<"sk-KEY">>, <<"pwd", "=", "hunter2x">>, <<"hunter2x">>},
          st \in Strategies}

\* No call is in progress.
fn_idle ==
  /\ scrubbed = <<>> /\ normalized = <<>> /\ stripped = <<>>
  /\ recorded = <<>> /\ resolved = <<>>

\* The call returns to its caller.
fn_return ==
  /\ ~fn_idle
  /\ scrubbed' = <<>>
  /\ normalized' = <<>>
  /\ stripped' = <<>>
  /\ recorded' = <<>>
  /\ resolved' = <<>>
  /\ fn_frame

\* scrub_entry(normalize_log_line(raw_line, ...)).
call_scrub_entry(raw_line) ==
  /\ fn_idle
  /\ LET entry == normalize_log_line(raw_line, <<"dispatcher">>, clock)
     IN scrubbed' = <<entry, scrub_entry(entry)>>
  /\ UNCHANGED <<normalized, stripped, recorded, resolved>>
  /\ fn_frame

\* Values of the keys level, log_level and levelname.
LevelValues ==
  {None} \cup {PyInt(n) : n \in {0, 10, 20, 30, 35, 40, 50, 60, 70}}
         \cup {PyStr(<<"ERROR">>), PyStr(<<"critical">>), PyStr(<<"warning">>)}

\* The lines given to normalize_log_line: empty, blank, free text, text
\* that is no JSON object, deeply nested JSON, and JSON objects.
NormLines ==
  {Text(t) : t \in {<<>>, <<" ">>, <<" ", "hello", " ">>, <<"ERROR", "boom">>,
                    <<"WARN">>, <<"{bad">>, <<"[1,2]">>, <<DeepNesting>>,
                    <<"hello", DeepNesting>>}}
  \cup {Json([level |-> lv, log_level |-> ll, levelname |-> ln, msg |-> m]) :
          lv \in LevelValues,
          ll \in {None, PyStr(<<"ERROR">>), PyStr(<<"notice">>), PyInt(20)},
          ln \in {None, PyStr(<<"WARN">>)},
          m \in {None, PyStr(<<"hello">>)}}

\* normalize_log_line(raw_line, service) at instant now: line 110 strips
\* the line; the outcome is <<record>>, or <<>> when the call raises.
call_normalize_log_line(raw_line, service, now) ==
  /\ fn_idle
  /\ LET body == IF raw_line.json THEN raw_line ELSE Text(strip(raw_line.text))
     IN normalized' = <<raw_line, service, now,
                        IF normalize_raises(body) THEN <<>>
                        ELSE <<normalize_log_line(body, service, now)>> >>
  /\ UNCHANGED <<scrubbed, stripped, recorded, resolved>>
  /\ fn_frame

\* Non-empty lines a stream delivers: with and without the runtime's prefix,
\* of more than 30 characters and of at most 30, the payload free text, a
\* JSON object or empty (the prefix alone, which is 30 characters).
PrefixLines ==
  { line \in [pfx : {0} \cup Times, long : BOOLEAN,
              body : {Text(<<>>), Text(<<"hello">>), Text(<<"ERROR", "boom">>),
                      Json([msg |-> PyStr(<<"hello">>)]),
                      Json([msg |-> PyStr(<<"hello">>), timestamp |-> IsoStr(0)]),
                      Json([msg |-> PyStr(<<"hello">>), time |-> PyInt(0)])}] :
      line.body = Text(<<>>) => (line.pfx # 0 /\ ~line.long) }

\* Lines 73-82 of _tail_container for one non-empty line.
call_tail_prefix(line) ==
  /\ fn_idle
  /\ stripped' = <<line, docker_ts_of(line), payload_of(line)>>
  /\ UNCHANGED <<scrubbed, normalized, recorded, resolved>>
  /\ fn_frame

\* Lines 73-88 of _tail_container for one non-empty line: the wall clock
\* reads now1 at the call of line 82 and now2 at the call of line 85.
call_tail_entry(line, service, now1, now2) ==
  /\ fn_idle
  /\ now1 <= now2
  /\ recorded' = <<line, now1, now2, tail_entry(line, service, now1, now2)>>
  /\ UNCHANGED <<scrubbed, normalized, stripped, resolved>>
  /\ fn_frame

\* str.lstrip("/"): every leading "/" removed.
RECURSIVE lstrip(_)
lstrip(name) ==
  IF name # <<>> /\ name[1] = "/" THEN lstrip(Tail(name)) ELSE name

name_only(container) == container.name.s

\* Line 38: `container.name or container.short_id`.
name_or_short_id(container) ==
  IF Truthy(container.name) THEN container.name.s ELSE container.short_id

\* _get_service_name(container): label is labels.get("com.docker.compose.service"),
\* None when labels is empty or None.
_get_service_name(container) ==
  IF Truthy(container.label) THEN container.label.s
  ELSE lstrip(name_or_short_id(container))

\* Containers as the runtime reports them: the compose label absent, empty or
\* set; the name absent, empty, bare or with the leading "/" of the
\* runtime's API; the short id is twelve hexadecimal digits.
NamedContainers ==
  [label : {None, PyStr(<<>>), PyStr(<<"api">>)},
   name : {None, PyStr(<<>>), PyStr(<<"web">>), PyStr(<<"/", "web">>),
           PyStr(<<"web", "/", "1">>)},
   short_id : {<<"0a1b2c3d4e5f">>}]

call_get_service_name(container) ==
  /\ fn_idle
  /\ resolved' = <<container, _get_service_name(container)>>
  /\ UNCHANGED <<scrubbed, normalized, stripped, recorded>>
  /\ fn_frame

NextFunctions ==
  \/ \E raw_line \in ScrubLines : call_scrub_entry(raw_line)
  \/ \E raw_line \in NormLines : \E service \in {<<"dispatcher">>, <<"einbroch">>} :
       \E now \in Times : call_normalize_log_line(raw_line, service, now)
  \/ \E line \in PrefixLines : call_tail_prefix(line)
  \/ \E line \in PrefixLines : \E now1, now2 \in Times :
       call_tail_entry(line, <<"dispatcher">>, now1, now2)
  \/ \E container \in NamedContainers : call_get_service_name(container)
  \/ fn_return

SpecFunctions == Init /\ [][NextFunctions]_vars

\* ------------------------------------------------------ retention loop alone

ret_frame == UNCHANGED <<stop_event, life, tail_vars, sub_vars, search_vars,
                         bc_vars, mon_vars, fn_vars, sse_vars, lock_vars>>

\* The settings the process starts with: log_retention_days, max_db_size_mb
\* and retention_check_interval_seconds (in days of the model's clock).
RetentionSettings ==
  [days : 0..MaxRetentionDays, mb : {1}, interval : {1}]

\* What os.path.getsize answers: get_db_size_bytes gives 0 when it raises.
DbSizes == {0, 1024 * 1024, 1024 * 1024 + 1}

\* Rows the tailers insert while the loop runs.
RetentionEntries ==
  {Entry(<<"dispatcher">>, <<"info">>, ts, <<>>, <<"pipeline", "started">>) :
     ts \in 0..(MaxDay - 1)}

loop_catches_nothing(exc) == FALSE

\* `except Exception` of line 30: whatever _run_cleanup raises (sqlite3.Error
\* and OSError are Exceptions) is caught and logged.
loop_catches(exc) == exc \in {"sqlite3.OperationalError", "sqlite3.DatabaseError"}

aggressive_days_unclamped(days) == (days * 3) \div 4

\* Line 58: max(1, settings.log_retention_days * 3 // 4).
aggressive_days(days) == Max(1, (days * 3) \div 4)

\* Line 49.
max_bytes(mb) == mb * 1024 * 1024

\* The `await asyncio.sleep(...)` of line 33, reached at instant now.
sleeping(r, now) == [r EXCEPT !.pc = "sleep", !.wake = now + r.interval]

\* The loop after _run_cleanup raised exc.
after_raise(r, exc, now) ==
  IF loop_catches(exc) THEN [sleeping(r, now) EXCEPT !.errors = r.errors + 1]
  ELSE [r EXCEPT !.pc = "raised"]

\* start_retention_loop begins: _running = True, and the loop is entered.
retention_start(settings) ==
  /\ ret.pc = "new"
  /\ ret' = [ret EXCEPT !.pc = "cycle", !.running = TRUE, !.days = settings.days,
                        !.mb = settings.mb, !.interval = settings.interval,
                        !.cycles = 1]
  /\ UNCHANGED <<clock, cycle, store_vars, hist_vars, bound_vars>>
  /\ ret_frame

\* Lines 39-45: the time-based delete.
cleanup_time_delete ==
  /\ ret.pc = "cycle"
  /\ delete_old_logs(clock - ret.days)
  /\ cycle' = [NoCycle EXCEPT !.now = clock, !.cutoff = clock - ret.days,
                              !.left = logs']
  /\ ret' = [ret EXCEPT !.pc = "size"]
  /\ UNCHANGED <<clock, bound_vars>>
  /\ ret_frame

\* delete_old_logs raises in the time-based delete: the cycle is given up.
cleanup_time_delete_raises(exc) ==
  /\ ret.pc = "cycle"
  /\ nfail < MaxFail
  /\ nfail' = nfail + 1
  /\ cycle' = [NoCycle EXCEPT !.now = clock, !.cutoff = clock - ret.days]
  /\ ret' = after_raise(ret, exc, clock)
  /\ UNCHANGED <<clock, store_vars, hist_vars, ncalls, npurge>>
  /\ ret_frame

\* Lines 48-50: the size of the database file is measured and compared.
cleanup_measure(db_size) ==
  /\ ret.pc = "size"
  /\ cycle' = [cycle EXCEPT !.measured = TRUE, !.db_size = db_size,
                            !.exceeded = db_size > max_bytes(ret.mb)]
  /\ ret' = IF db_size > max_bytes(ret.mb) THEN [ret EXCEPT !.pc = "aggressive"]
            ELSE sleeping(ret, clock)
  /\ UNCHANGED <<clock, store_vars, hist_vars, bound_vars>>
  /\ ret_frame

\* Lines 57-61: the aggressive delete.
cleanup_aggressive_delete ==
  /\ ret.pc = "aggressive"
  /\ delete_old_logs(clock - aggressive_days(ret.days))
  /\ cycle' = [cycle EXCEPT !.purged = TRUE, !.now2 = clock,
                            !.aggressive_cutoff = clock - aggressive_days(ret.days),
                            !.left2 = logs']
  /\ ret' = sleeping(ret, clock)
  /\ UNCHANGED <<clock, bound_vars>>
  /\ ret_frame

\* delete_old_logs raises in the aggressive delete.
cleanup_aggressive_delete_raises(exc) ==
  /\ ret.pc = "aggressive"
  /\ nfail < MaxFail
  /\ nfail' = nfail + 1
  /\ ret' = after_raise(ret, exc, clock)
  /\ UNCHANGED <<clock, cycle, store_vars, hist_vars, ncalls, npurge>>
  /\ ret_frame

\* asyncio.sleep returns and `while _running` is tested.
retention_wake ==
  /\ ret.pc = "sleep"
  /\ clock >= ret.wake
  /\ ret.cycles < MaxCycles
  /\ ret' = IF ret.running THEN [ret EXCEPT !.pc = "cycle", !.cycles = @ + 1]
            ELSE [ret EXCEPT !.pc = "returned"]
  /\ UNCHANGED <<clock, cycle, store_vars, hist_vars, bound_vars>>
  /\ ret_frame

\* stop_retention_loop()
stop_retention_loop ==
  /\ ret.pc \notin {"new", "returned", "cancelled"}
  /\ ret.running
  /\ ret' = [ret EXCEPT !.running = FALSE]
  /\ UNCHANGED <<clock, cycle, store_vars, hist_vars, bound_vars>>
  /\ ret_frame

\* retention_task.cancel() of lifespan: CancelledError ends the sleep.
retention_cancel ==
  /\ ret.pc = "sleep"
  /\ ~ret.running
  /\ ret' = [ret EXCEPT !.pc = "cancelled"]
  /\ UNCHANGED <<clock, cycle, store_vars, hist_vars, bound_vars>>
  /\ ret_frame

\* A tailer inserts a row while the loop runs.
retention_insert(entry) ==
  /\ ncalls < MaxRetentionRows
  /\ insert_log(StoreItem(entry, 1))
  /\ ncalls' = ncalls + 1
  /\ UNCHANGED <<clock, ret_vars, nfail, npurge>>
  /\ ret_frame

a_day_passes ==
  /\ clock < MaxDay
  /\ clock' = clock + 1
  /\ UNCHANGED <<ret_vars, store_vars, hist_vars, bound_vars>>
  /\ ret_frame

NextRetention ==
  \/ \E settings \in RetentionSettings : retention_start(settings)
  \/ cleanup_time_delete
  \/ cleanup_time_delete_raises("sqlite3.OperationalError")
  \/ \E db_size \in DbSizes : cleanup_measure(db_size)
  \/ cleanup_aggressive_delete
  \/ cleanup_aggressive_delete_raises("sqlite3.DatabaseError")
  \/ retention_wake
  \/ stop_retention_loop
  \/ retention_cancel
  \/ \E entry \in RetentionEntries : retention_insert(entry)
  \/ a_day_passes

SpecRetention == Init /\ [][NextRetention]_vars

\* --------------------------------------------------- live-tail sessions alone

sse_frame == UNCHANGED <<clock, stop_event, life, store_vars, hist_vars,
                         search_vars, bound_vars, bc_vars, mon_vars, fn_vars,
                         ret_vars, lock_vars>>

\* The `service` query parameter of a session: absent or a service name.
StreamFilters == {<<>>, <<"einbroch">>}

leave_on_break_only(registered, q, cause) ==
  IF cause = "disconnect" THEN unsubscribe_remove(registered, q) ELSE registered

\* `finally: unsubscribe(queue)` of event_generator, whatever ends the try.
leave(registered, q, cause) == unsubscribe_remove(registered, q)

\* The generator of session q ends for `cause`: the finally clause runs.
finish(q, cause) ==
  /\ gen' = [gen EXCEPT ![q].pc = "ended", ![q].cause = cause]
  /\ sess' = [sess EXCEPT ![q] = "ended"]
  /\ subscribers' = leave(subscribers, q, cause)

\* event_generator is started: queue = subscribe(), and the loop is entered.
stream_start(q, service) ==
  /\ gen[q].pc = "new"
  /\ gen' = [gen EXCEPT ![q].pc = "check", ![q].service = service]
  /\ sess' = [sess EXCEPT ![q] = "open"]
  /\ subscribers' = subscribers \cup {q}
  /\ UNCHANGED <<queue, delivered, tail_vars>>
  /\ sse_frame

\* `await request.is_disconnected()` answers False.
stream_connected(q) ==
  /\ gen[q].pc = "check"
  /\ gen' = [gen EXCEPT ![q].pc = "wait"]
  /\ UNCHANGED <<subscribers, sess, queue, delivered, tail_vars>>
  /\ sse_frame

\* `await request.is_disconnected()` answers True: break.
stream_disconnected(q) ==
  /\ gen[q].pc = "check"
  /\ finish(q, "disconnect")
  /\ UNCHANGED <<queue, delivered, tail_vars>>
  /\ sse_frame

\* asyncio.wait_for(queue.get(), timeout=30.0) raises TimeoutError: the
\* keep-alive comment is yielded.
stream_timeout(q) ==
  /\ gen[q].pc = "wait"
  /\ queue[q] = <<>>
  /\ gen[q].keepalives < MaxKeepalives
  /\ gen' = [gen EXCEPT ![q].pc = "yield", ![q].keepalives = @ + 1]
  /\ UNCHANGED <<subscribers, sess, queue, delivered, tail_vars>>
  /\ sse_frame

\* queue.get() returns an entry: it is filtered out, or yielded as an event.
stream_entry(q) ==
  /\ gen[q].pc = "wait"
  /\ queue[q] # <<>>
  /\ queue' = [queue EXCEPT ![q] = Tail(@)]
  /\ LET entry == Head(queue[q]).entry
     IN IF gen[q].service # <<>> /\ entry.service # gen[q].service
        THEN /\ gen' = [gen EXCEPT ![q].pc = "check"]
             /\ UNCHANGED delivered
        ELSE /\ gen' = [gen EXCEPT ![q].pc = "yield"]
             /\ delivered' = [delivered EXCEPT ![q] = Append(@, Head(queue[q]))]
  /\ UNCHANGED <<subscribers, sess, tail_vars>>
  /\ sse_frame

\* The consumer takes what was yielded; after the rate-limit sleep or the
\* `continue` the loop starts over.
stream_resumed(q) ==
  /\ gen[q].pc = "yield"
  /\ gen' = [gen EXCEPT ![q].pc = "check"]
  /\ UNCHANGED <<subscribers, sess, queue, delivered, tail_vars>>
  /\ sse_frame

\* The stream is cancelled: CancelledError at an await, or the generator is
\* closed at a yield.
stream_cancelled(q) ==
  /\ gen[q].pc \in {"check", "wait", "yield"}
  /\ finish(q, "cancelled")
  /\ UNCHANGED <<queue, delivered, tail_vars>>
  /\ sse_frame

\* An exception while serving: is_disconnected or json.dumps raises.
stream_error(q) ==
  /\ gen[q].pc \in {"check", "wait"}
  /\ finish(q, "error")
  /\ UNCHANGED <<queue, delivered, tail_vars>>
  /\ sse_frame

\* A tailer publishes a batch of one entry.
stream_publish(service) ==
  /\ Cardinality(published) < MaxStreamEntries
  /\ _notify_subscribers(
       <<[entry |-> Entry(service, <<"info">>, 1, <<>>, <<"pipeline", "started">>),
          src |-> <<0, Cardinality(published) + 1>>]>>)
  /\ UNCHANGED <<gen, pc, batch, nread, accepted>>
  /\ sse_frame

NextStream ==
  \/ \E q \in AllQueues : \E service \in StreamFilters : stream_start(q, service)
  \/ \E q \in AllQueues : stream_connected(q)
  \/ \E q \in AllQueues : stream_disconnected(q)
  \/ \E q \in AllQueues : stream_timeout(q)
  \/ \E q \in AllQueues : stream_entry(q)
  \/ \E q \in AllQueues : stream_resumed(q)
  \/ \E q \in AllQueues : stream_cancelled(q)
  \/ \E q \in AllQueues : stream_error(q)
  \/ \E service \in {<<"dispatcher">>, <<"einbroch">>} : stream_publish(service)

SpecStream == Init /\ [][NextStream]_vars

\* ------------------------------------------------------- the store's lock alone

lock_frame == UNCHANGED <<clock, stop_event, life, store_vars, hist_vars,
                          tail_vars, sub_vars, search_vars, bound_vars, bc_vars,
                          mon_vars, fn_vars, ret_vars, sse_vars>>

\* The threads that call the store: tailers, the event loop's handlers run in
\* the thread pool, the retention loop.
DbCallers == 1..NCallers

WriteOps == {"insert_log", "insert_logs_batch", "delete_old_logs"}
ReadOps == {"search_logs", "get_log_context", "get_services"}

\* A thread calls a function of db.py and reaches its `with _lock:`.
db_call(c, op) ==
  /\ calls[c].pc = "idle"
  /\ calls' = [calls EXCEPT ![c] = [pc |-> "with _lock", op |-> op]]
  /\ UNCHANGED lock
  /\ lock_frame

\* _lock.acquire() returns: every function of db.py, reads as well as writes,
\* runs its statements inside `with _lock:`.
db_enter(c) ==
  /\ calls[c].pc = "with _lock"
  /\ lock = 0
  /\ lock' = c
  /\ calls' = [calls EXCEPT ![c].pc = "inside"]
  /\ lock_frame

\* The with block is left, by return or by an exception.
db_leave(c) ==
  /\ calls[c].pc = "inside"
  /\ lock' = 0
  /\ calls' = [calls EXCEPT ![c] = NoCall]
  /\ lock_frame

NextLock ==
  \/ \E c \in DbCallers : \E op \in WriteOps \cup ReadOps : db_call(c, op)
  \/ \E c \in DbCallers : db_enter(c)
  \/ \E c \in DbCallers : db_leave(c)

SpecLock == Init /\ [][NextLock]_vars

\* ------------------------------------------------------ claims: the pipeline

Levels == {<<"trace">>, <<"debug">>, <<"info">>, <<"warn">>, <<"warning">>,
           <<"error">>, <<"fatal">>}

\* A str in which one of the secret patterns still matches.
HasSecret(text) ==
  \E i \in DOMAIN text :
    \/ text[i] \in SecretToks
    \/ text[i] \in BearerToks /\ i > 1 /\ text[i - 1] = "Bearer"

OptedOut(raw) ==
  /\ raw.json
  /\ raw.data["logging_strategy"] \in {PyStr(<<"redacted">>), PyStr(<<"partial">>)}

\* An entry as normalize_log_line then scrub_entry leave it for tailer t.
Processed(item) ==
  /\ item.entry.service = Service(item.src[1])
  /\ item.entry.level \in Levels
  /\ \/ OptedOut(item.entry.raw)
     \/ /\ ~HasSecret(item.entry.message)
        /\ ~HasSecret(item.entry.raw.text)
        /\ \A k \in Keys : ~HasSecret(item.entry.raw.data[k].s)

\* What a session has received or will: dequeued, then still queued.
Received(q) == delivered[q] \o queue[q]

Range(f) == {f[i] : i \in DOMAIN f}

\* C1: every record a tailer handed to the store or to a subscriber queue is
\* normalized (its service is the tailer's, its level is a level) and
\* scrubbed (no secret pattern matches its message or raw, unless its raw
\* opted out of scrubbing).
C1_ScrubbedBeforeStoreAndPublish ==
  /\ \A r \in logs : r.src[1] \in Tailers => Processed(r)
  /\ \A q \in Queues : \A i \in DOMAIN Received(q) : Processed(Received(q)[i])

\* C1 witness: a line carrying a secret is in the store and in a queue,
\* redacted, next to an opted-out line stored as it came.
C1_Witness ==
  /\ \E r \in logs : Contains(r.entry.message, "[REDACTED]")
  /\ \E r \in logs : OptedOut(r.entry.raw) /\ HasSecret(r.entry.message)
  /\ \E q \in Queues : \E i \in DOMAIN queue[q] :
       Contains(queue[q][i].entry.message, "[REDACTED]")

\* C2: whatever is or was in a subscriber queue, and whatever was passed to
\* the broadcaster, was committed in the store before; no entry of a batch
\* whose insert raised is ever published.
C2_InsertBeforePublish ==
  /\ published \subseteq committed
  /\ \A q \in Queues : \A i \in DOMAIN Received(q) :
       Received(q)[i].src \in committed
  /\ \A b \in batches : b.raised => b.srcs \cap published = {}

\* C2 witness: a queue holds a committed entry while another batch's insert
\* has raised.
C2_Witness ==
  /\ \E q \in Queues : queue[q] # <<>>
  /\ \E b \in batches : b.raised
  /\ \E b \in batches : ~b.raised /\ b.srcs \subseteq published

\* C3 (as claimed): when a tailer has exited and no store insert has failed,
\* every entry it appended to its batch is committed and published.
C3_ResidualFlushedAtExit ==
  \A t \in Tailers :
    (pc[t] = "done" /\ nfail = 0) =>
      \A i \in DOMAIN accepted[t] :
        accepted[t][i] \in committed /\ accepted[t][i] \in published

\* C4 (as claimed): when the shutdown sequence has closed the store, every
\* tailer that was started has exited after flushing, so no tailer is still
\* running with entries that are not in the store.
C4_DrainedBeforeClose ==
  life = "closed" =>
    \A t \in Tailers :
      \/ pc[t] \in {"idle", "done"}
      \/ \A i \in DOMAIN accepted[t] : accepted[t][i] \in committed

\* C5: for two lines of one tailer, the earlier received has the smaller row
\* id when both are stored, and a session that gets both gets the earlier
\* first.
C5_ReceiptOrder ==
  /\ \A r1, r2 \in logs :
       (r1.src[1] = r2.src[1] /\ r1.src[1] \in Tailers /\ r1.src[2] < r2.src[2])
         => r1.id < r2.id
  /\ \A q \in Queues : \A i, j \in DOMAIN Received(q) :
       (i < j /\ Received(q)[i].src[1] = Received(q)[j].src[1])
         => Received(q)[i].src[2] < Received(q)[j].src[2]

\* C5 witness: one tailer has rows of two flushes in the store and a session
\* has dequeued two of its entries.
C5_Witness ==
  \E t \in Tailers :
    /\ \E r1, r2 \in logs :
         /\ r1.src[1] = t /\ r2.src[1] = t /\ r1.id < r2.id
         /\ \E b \in batches : r1.src \in b.srcs /\ r2.src \notin b.srcs
    /\ \E q \in Queues :
         /\ Len(delivered[q]) >= 2
         /\ delivered[q][1].src[1] = t /\ delivered[q][2].src[1] = t

\* -------------------------------------------------------- claims: the store

\* C6 (as claimed): of every batch passed to insert_logs_batch, whether the
\* call returned or raised, either every row was committed or none was.
C6_BatchAtomic ==
  \A b \in batches : b.srcs \subseteq committed \/ b.srcs \cap committed = {}

MatchTerms == {<<"pipeline">>, <<"failed">>, <<"tool">>, <<"pipeline", "failed">>,
               <<"absent">>}

\* C8: the full-text index holds exactly the (id, message) of the rows of
\* logs, and a search with q returns exactly the rows in logs whose message
\* matches q (limit permitting).
C8_FtsSynchronized ==
  /\ fts = {<<r.id, r.entry.message>> : r \in logs}
  /\ \A q \in MatchTerms :
       Range(search_logs(q, <<>>, <<>>, 0, 0, <<>>, MaxRows + 2, 0))
         = {r \in logs : fts_match(r.entry.message, q)}

\* C8 witness: after a purge that deleted a matching row and kept another,
\* a search with q has returned a row.
C8_Witness ==
  /\ npurge > 0
  /\ logs # {}
  /\ \E i \in DOMAIN assigned : assigned[i] \notin Ids(logs)
  /\ query.q # <<>>
  /\ result # <<>>
  /\ Range(result) \subseteq logs

\* C9 (as claimed): what search returns is ordered by timestamp descending
\* and, among equal timestamps, by id descending.
C9_SearchOrder ==
  \A i, j \in DOMAIN result :
    i < j => \/ result[i].entry.timestamp > result[j].entry.timestamp
             \/ /\ result[i].entry.timestamp = result[j].entry.timestamp
                /\ result[i].id > result[j].id

\* search_logs called with no filter.
NoFilterResults(limit, offset) ==
  search_logs(<<>>, <<>>, <<>>, 0, 0, <<>>, limit, offset)

\* C10 (as claimed): a search with no filters returns every row of the store.
C10_SearchReturnsEveryRow ==
  \A limit \in 1..MaxLimit : logs \subseteq Range(NoFilterResults(limit, 0))

\* C10 (amended): a search with no filters, offset 0 and a limit of at least
\* the number of rows in the store returns every row of the store.
C10_SearchReturnsEveryRowWithinLimit ==
  \A limit \in 1..(MaxRows + 1) :
    limit >= Cardinality(logs) => logs \subseteq Range(NoFilterResults(limit, 0))

\* C10 witness: a search with no filters has returned both rows of the store.
C10_Witness ==
  /\ query.limit >= 2 /\ query.offset = 0
  /\ query.q = <<>> /\ query.service = <<>>
  /\ Cardinality(logs) = 2
  /\ Range(result) = logs

\* Filter arguments a search is checked with; <<>> and 0 are an absent filter.
FilterArgs ==
  [q : {<<>>, <<"pipeline">>}, service : {<<>>, <<"dispatcher">>},
   level : {<<>>, <<"error">>}, from_ts : 0..MaxTime, to_ts : 0..MaxTime,
   trace_id : {<<>>, <<"t1">>}]

\* The stored rows that satisfy every supplied filter of f.
Matching(f) ==
  {r \in logs :
     /\ f.q = <<>> \/ fts_match(r.entry.message, f.q)
     /\ f.service = <<>> \/ r.entry.service = f.service
     /\ f.level = <<>> \/ r.entry.level = f.level
     /\ f.trace_id = <<>> \/ r.entry.trace_id = f.trace_id
     /\ f.from_ts = 0 \/ f.from_ts <= r.entry.timestamp
     /\ f.to_ts = 0 \/ r.entry.timestamp <= f.to_ts}

\* C11: with a limit covering the table, search returns exactly the stored
\* rows that satisfy every supplied filter (equality on service, level and
\* trace_id, from <= timestamp <= to), each once; and what a search returned
\* is the rows offset+1 .. offset+limit of those.
C11_FiltersConjunctive ==
  /\ \A f \in IF query.limit = 0 /\ ctx.lines = 0 THEN FilterArgs ELSE {} :
       LET all == search_logs(f.q, f.service, f.level, f.from_ts, f.to_ts,
                              f.trace_id, MaxRows + 1, 0)
       IN /\ Range(all) = Matching(f)
          /\ Len(all) = Cardinality(Matching(f))
  /\ query.limit > 0 =>
       LET all == search_logs(query.q, query.service, query.level,
                              query.from_ts, query.to_ts, query.trace_id,
                              MaxRows + 1, 0)
       IN result = SubSeq(all, query.offset + 1,
                          Min(Len(all), query.offset + query.limit))

\* C11 witness: a search with a service, a trace_id and both ends of the
\* interval has returned a row on its lower end while the store holds a row
\* the filters exclude.
C11_Witness ==
  /\ query.service # <<>> /\ query.trace_id # <<>>
  /\ query.from_ts # 0 /\ query.to_ts # 0
  /\ result # <<>>
  /\ \E r \in logs : r \notin Range(result) /\ r.entry.service # query.service

\* C12: of the rows the last delete_old_logs(before) met, exactly those with
\* timestamp >= before are still in the store, unchanged, until the next
\* call; it returned the number of rows with timestamp < before; and no
\* search since has returned one of the rows it removed.
C12_DeleteBeforeExact ==
  last_purge.before # 0 =>
    LET old == {r \in last_purge.had : r.entry.timestamp < last_purge.before}
    IN /\ logs \cap last_purge.had = last_purge.had \ old
       /\ last_purge.deleted = Cardinality(old)
       /\ Range(result) \cap old = {}

\* C12 witness: the last delete_old_logs removed a row and kept a row whose
\* timestamp equals its argument, and a search since has returned that row.
C12_Witness ==
  /\ last_purge.deleted > 0
  /\ \E r \in Range(result) :
       r \in last_purge.had /\ r.entry.timestamp = last_purge.before

\* C13: a context call for an existing target returned at most lines+1
\* records, all of the target's service, the target exactly once, in
\* ascending id.
C13_ContextShape ==
  (ctx.lines # 0 /\ ctx.log_id \in Ids(logs)) =>
    LET e == ctx.entries
        target == CHOOSE r \in logs : r.id = ctx.log_id
    IN /\ Len(e) <= ctx.lines + 1
       /\ \A i \in DOMAIN e : e[i].entry.service = target.entry.service
       /\ Cardinality({i \in DOMAIN e : e[i].id = ctx.log_id}) = 1
       /\ \A i, j \in DOMAIN e : i < j => e[i].id < e[j].id
       /\ Range(e) \subseteq logs

\* C13 witness: a context call with lines = 2 returned three records while
\* the store holds a row of another service.
C13_Witness ==
  /\ ctx.lines = 2
  /\ Len(ctx.entries) = 3
  /\ \E r \in logs : r.entry.service # ctx.entries[1].entry.service

\* C14: a context call returned the empty list exactly when no row with the
\* target id is in the store, and the endpoint answered 404 exactly then.
C14_ContextNotFound ==
  ctx.lines # 0 =>
    /\ ctx.entries = <<>> <=> ctx.log_id \notin Ids(logs)
    /\ ctx.status = 404 <=> ctx.log_id \notin Ids(logs)
    /\ ctx.status \in {200, 404}

\* C14 witness: the endpoint answered 404 for the id of a row that
\* delete_old_logs removed, while other rows are in the store.
C14_Witness ==
  /\ ctx.status = 404
  /\ \E i \in DOMAIN assigned : assigned[i] = ctx.log_id
  /\ \E r \in last_purge.had : r.id = ctx.log_id
  /\ logs # {}

\* --------------------------------------------------- claims: the broadcaster

\* C15: no subscriber queue ever holds more entries than its capacity.
C15_QueueBounded == \A q \in AllQueues : Len(queue[q]) <= maxsize

\* C15 witness: a put has met a full queue, and the queue is full again.
C15_Witness ==
  /\ last_overflow.done
  /\ Len(queue[last_overflow.q]) = maxsize

\* C16 (as claimed): every put that met a full queue ended with the new entry
\* enqueued and at most one entry discarded.
C16_DropOldest ==
  last_overflow.done => last_overflow.enqueued /\ last_overflow.discarded <= 1

IsSubsequence(a, b) ==
  \E f \in [DOMAIN a -> DOMAIN b] :
    /\ \A i \in DOMAIN a : a[i] = b[f[i]]
    /\ \A i, j \in DOMAIN a : i < j => f[i] < f[j]

\* C17: what a subscriber has dequeued, followed by what its queue holds, is
\* a subsequence of the entries published while it was registered, in
\* publish order.
C17_PublishOrder ==
  \A q \in AllQueues : IsSubsequence(delivered[q] \o queue[q], offered[q])

\* C17 witness: overflow has dropped an entry published to a subscriber
\* between two entries that the subscriber has dequeued.
C17_Witness ==
  \E q \in AllQueues :
    /\ Len(delivered[q]) >= 2
    /\ \E i \in DOMAIN offered[q] :
         /\ offered[q][i] \notin Range(delivered[q] \o queue[q])
         /\ \E j, k \in DOMAIN offered[q] :
              /\ j < i /\ i < k
              /\ offered[q][j] \in Range(delivered[q])
              /\ offered[q][k] \in Range(delivered[q])

\* C18: a step of unsubscribe(q) leaves q unregistered and every other
\* registration and every queue's content as they were; for a queue that is
\* not registered it changes nothing; and no step enqueues an entry into a
\* queue that is not registered.
C18_Unsubscribe ==
  [][/\ \A q \in AllQueues :
          (sess'[q] # sess[q] /\ sess'[q] \in {"ended", "again"})
            => /\ q \notin subscribers'
               /\ subscribers' \ {q} = subscribers \ {q}
               /\ queue' = queue /\ delivered' = delivered
               /\ sess[q] = "ended" => subscribers' = subscribers
     /\ \A q \in AllQueues :
          (/\ queue'[q] # <<>>
           /\ queue[q] = <<>> \/ queue'[q][Len(queue'[q])] # queue[q][Len(queue[q])])
            => q \in subscribers]_vars

\* C18 witness: a queue was unsubscribed with entries in it, entries were
\* published afterwards to another queue that is still registered, and
\* unsubscribe was called for the first queue again.
C18_Witness ==
  \E q, o \in AllQueues :
    /\ q # o
    /\ sess[q] = "again" /\ q \notin subscribers
    /\ queue[q] # <<>>
    /\ o \in subscribers
    /\ Len(offered[o]) > Len(offered[q])


\* ------------------------------------------------------ claims: the supervisor

C20_NeverTailsSelf ==
  \A t \in 1..Len(threads) : threads[t].cid # SelfContainer

\* C21: a failure to connect to the container runtime ends one attempt only:
\* the supervisor stays in its loop of attempts and ends only when the
\* collector is stopped.
C21_RetriesAfterConnectFailure ==
  mon.pc = "returned" => stop_event

\* ------------------------------------------------------ claims: the functions

\* One of the patterns still matches in a str.
SecretLeft(text) ==
  \E k \in DOMAIN SCRUB_PATTERNS : pattern_search(SCRUB_PATTERNS[k], text)

\* C22: for every record whose raw does not opt out, no secret pattern
\* matches the message or the raw of what scrub_entry returns.
C22_NoPatternLeft ==
  (scrubbed # <<>> /\ ~_should_skip_scrubbing(scrubbed[1].raw)) =>
    /\ ~SecretLeft(scrubbed[2].message)
    /\ ~SecretLeft(scrubbed[2].raw.text)
    /\ \A k \in Keys : ~SecretLeft(scrubbed[2].raw.data[k].s)

C24_ServiceAndLevel ==
  (normalized # <<>> /\ normalized[4] # <<>>) =>
    /\ normalized[4][1].service = normalized[2]
    /\ normalized[4][1].level \in Levels

\* The level a JSON line with an integer level and no str log_level gets.
PinoName(n) ==
  IF n = 10 THEN <<"trace">> ELSE IF n = 20 THEN <<"debug">>
  ELSE IF n = 30 THEN <<"info">> ELSE IF n = 40 THEN <<"warn">>
  ELSE IF n = 50 THEN <<"error">> ELSE IF n = 60 THEN <<"fatal">>
  ELSE <<"info">>

\* C25: a JSON object with an integer level and no str log_level gets the
\* level trace, debug, info, warn, error, fatal for 10, 20, 30, 40, 50, 60,
\* and info for every other integer.
C25_NumericLevel ==
  (/\ normalized # <<>>
   /\ normalized[1].json
   /\ normalized[1].data["level"].t = "int"
   /\ normalized[1].data["log_level"].t # "str") =>
    /\ normalized[4] # <<>>
    /\ normalized[4][1].level = PinoName(normalized[1].data["level"].n)

\* A line with level 50 and a levelname came back as error.
C25_Witness ==
  /\ normalized # <<>>
  /\ normalized[1].json
  /\ normalized[1].data["level"] = PyInt(50)
  /\ normalized[1].data["log_level"] = PyInt(20)
  /\ normalized[1].data["levelname"] = PyStr(<<"WARN">>)
  /\ normalized[4] # <<>>
  /\ normalized[4][1].level = <<"error">>

\* C26: normalize_log_line returns a record for every line; a line that is
\* no JSON object comes back as free text (message the stripped line, no
\* trace_id), an empty or blank line with an empty message and level info.
C26_NormalizerNeverFails ==
  normalized # <<>> =>
    /\ normalized[4] # <<>>
    /\ ~normalized[1].json =>
         /\ normalized[4][1].message = strip(normalized[1].text)
         /\ normalized[4][1].trace_id = <<>>
         /\ strip(normalized[1].text) = <<>> => normalized[4][1].level = <<"info">>

\* C27: services() returns the distinct non-empty service values of the rows
\* currently in the store, each exactly once, in ascending lexical order; a
\* service all of whose rows retention deleted is no longer listed.
C27_Services ==
  listed.called =>
    /\ {listed.services[i] : i \in DOMAIN listed.services}
         = {r.entry.service : r \in logs}
    /\ \A i \in DOMAIN listed.services : listed.services[i] # <<>>
    /\ \A i, j \in DOMAIN listed.services :
         i < j => collation_rank(listed.services[i])
                    < collation_rank(listed.services[j])

\* services() is called after retention deleted every row of a service that
\* had rows, while rows of another service remain.
C27_Witness ==
  /\ listed.called
  /\ listed.services # <<>>
  /\ last_purge.deleted > 0
  /\ \E r \in last_purge.had :
       /\ r.entry.service \notin {x.entry.service : x \in logs}
       /\ \A i \in DOMAIN listed.services : listed.services[i] # r.entry.service

\* C28: a context call for an existing target returned exactly the
\* floor(lines/2) rows of the target's service with the largest ids below the
\* target (all of them if fewer exist), then the target, then the
\* floor(lines/2) rows of that service with the smallest ids above it; rows of
\* other services are left out, and lines = 1 returns the target alone.
C28_ContextById ==
  (ctx.lines # 0 /\ ctx.log_id \in Ids(logs)) =>
    LET e == ctx.entries
        target == CHOOSE r \in logs : r.id = ctx.log_id
        same == {r \in logs : r.entry.service = target.entry.service}
        below == {r \in same : r.id < ctx.log_id}
        above == {r \in same : r.id > ctx.log_id}
        got_below == {r \in Range(e) : r.id < ctx.log_id}
        got_above == {r \in Range(e) : r.id > ctx.log_id}
    IN /\ Range(e) = got_below \cup {target} \cup got_above
       /\ Len(e) = Cardinality(got_below) + 1 + Cardinality(got_above)
       /\ \A i, j \in DOMAIN e : i < j => e[i].id < e[j].id
       /\ got_below \subseteq below
       /\ Cardinality(got_below) = Min(ctx.lines \div 2, Cardinality(below))
       /\ \A r \in below \ got_below : \A g \in got_below : r.id < g.id
       /\ got_above \subseteq above
       /\ Cardinality(got_above) = Min(ctx.lines \div 2, Cardinality(above))
       /\ \A r \in above \ got_above : \A g \in got_above : g.id < r.id
       /\ ctx.lines = 1 => e = <<target>>

\* A context call with lines = 2 left out an older row of the target's service
\* and skipped a row of another service whose id lies between the returned ids.
C28_Witness ==
  /\ ctx.lines = 2
  /\ Len(ctx.entries) >= 2
  /\ \E r \in logs :
       /\ r.entry.service = ctx.entries[1].entry.service
       /\ r.id < ctx.entries[1].id
  /\ \E r \in logs :
       /\ r.entry.service # ctx.entries[1].entry.service
       /\ ctx.entries[1].id < r.id
       /\ r.id < ctx.entries[Len(ctx.entries)].id

\* C29: a tailer that is between two lines of its stream holds fewer than
\* batch_size entries in its local batch, and the batch it flushes on the size
\* trigger holds exactly batch_size.
C29_FlushAtBatchSize ==
  \A t \in Tailers :
    /\ pc[t] = "read" => Len(batch[t]) < batch_size
    /\ pc[t] \in {"insert", "publish"} => Len(batch[t]) = batch_size

\* A tailer has flushed on the size trigger and has started the next batch.
C29_Witness ==
  \E t \in Tailers :
    /\ pc[t] = "read"
    /\ Len(batch[t]) = 1
    /\ Len(accepted[t]) = batch_size + 1
    /\ \A i \in 1..batch_size : accepted[t][i] \in published

\* C30: for a non-empty line that starts with the runtime's timestamp prefix
\* the tailer takes the prefix as the runtime timestamp and passes only the
\* remainder to the normalizer, whatever the length of the line; for any
\* other line the whole line is the payload and there is no runtime timestamp.
C30_PrefixAnyLength ==
  stripped # <<>> =>
    /\ stripped[2] = stripped[1].pfx
    /\ stripped[3] = stripped[1].body

\* C31: when the tailer took a runtime timestamp off a line and the
\* normalizer fell back to the wall clock (free text, or JSON with neither a
\* str timestamp nor a numeric time), the record carries the runtime
\* timestamp; a payload with its own timestamp keeps it.
C31_TimestampFallback ==
  recorded # <<>> =>
    LET line == recorded[1]
        payload == payload_of(line)
        own == /\ payload.json
               /\ \/ payload.data["timestamp"].t = "str"
                  \/ payload.data["time"].t = "int"
    IN /\ (docker_ts_of(line) # 0 /\ ~own) =>
            recorded[4].timestamp = docker_ts_of(line)
       /\ own => recorded[4].timestamp = _extract_timestamp(payload.data, recorded[2])

\* C32: the service of a container is its compose service label when that is
\* present and non-empty, else its name without one leading "/", else its
\* short id; it is never the empty string.
C32_ServiceName ==
  resolved # <<>> =>
    LET container == resolved[1]
        name == container.name.s
    IN /\ resolved[2] =
            IF container.label.t = "str" /\ container.label.s # <<>>
              THEN container.label.s
            ELSE IF container.name.t = "str" /\ name # <<>>
              THEN (IF name[1] = "/" THEN Tail(name) ELSE name)
            ELSE container.short_id
       /\ resolved[2] # <<>>

\* A container without a usable label whose name starts with "/" was resolved.
C32_Witness ==
  /\ resolved # <<>>
  /\ ~Truthy(resolved[1].label)
  /\ resolved[1].name = PyStr(<<"/", "web">>)
  /\ resolved[2] = <<"web">>

\* C33: the retention loop never raises: an error inside a cleanup cycle is
\* caught, the loop goes on to its sleep of the configured interval and
\* starts the next cycle no earlier than that; the first cycle starts at once,
\* without a sleep before it.
C33_LoopNeverRaises ==
  [][/\ ret'.pc # "raised"
     /\ ret'.errors = ret.errors + 1 =>
          /\ ret'.pc = "sleep"
          /\ ret'.wake = clock + ret.interval
          /\ ret'.running = ret.running
     /\ (ret.pc = "sleep" /\ ret'.pc = "cycle") =>
          (clock >= ret.wake /\ ret.running)
     /\ (ret.pc = "new" /\ ret'.pc # "new") => ret'.pc = "cycle"]_vars

\* A second cleanup cycle has started after the first one raised.
C33_Witness ==
  /\ ret.pc = "cycle"
  /\ ret.cycles = 2
  /\ ret.errors = 1

\* C34: in a cleanup cycle the aggressive delete runs exactly when the file
\* size measured after the time-based delete exceeds max_db_size_mb MiB; its
\* cutoff is now minus max(1, floor(retention_days * 3 / 4)) days; and for
\* retention_days >= 1 that cutoff is not older than the time-based one, so
\* no row the time-based delete removes outlives the aggressive delete.
C34_AggressiveDelete ==
  LET three_quarters == (ret.days * 3) \div 4
      days2 == IF three_quarters >= 1 THEN three_quarters ELSE 1
  IN /\ cycle.measured => (cycle.exceeded <=> cycle.db_size > ret.mb * 1048576)
     /\ cycle.purged => (cycle.measured /\ cycle.exceeded)
     /\ (cycle.measured /\ cycle.exceeded /\ ~cycle.purged) =>
          (ret.pc = "aggressive" \/ ret.errors > 0)
     /\ (cycle.measured /\ ~cycle.exceeded) => ret.pc # "aggressive"
     /\ cycle.purged => cycle.aggressive_cutoff = cycle.now2 - days2
     /\ (cycle.purged /\ ret.days >= 1) =>
          /\ cycle.aggressive_cutoff >= cycle.cutoff
          /\ \A r \in cycle.left2 : r.entry.timestamp >= cycle.cutoff

\* An aggressive delete with a later cutoff than the time-based one removed a
\* row the time-based delete had left.
C34_Witness ==
  /\ cycle.purged
  /\ ret.days >= 1
  /\ cycle.aggressive_cutoff > cycle.cutoff
  /\ \E r \in cycle.left : r \notin cycle.left2 /\ r.entry.timestamp >= cycle.cutoff

\* C35: a live-tail session that has ended, by the peer's disconnect, by
\* cancellation or by an error, is not in the registry, and an open session
\* is; a wait that times out emits a keep-alive and leaves the session open
\* and registered.
C35_EndedSessionsUnregistered ==
  [][\A q \in AllQueues :
       /\ gen'[q].pc = "ended" => q \notin subscribers'
       /\ gen'[q].pc \in {"check", "wait", "yield"} => q \in subscribers'
       /\ gen'[q].keepalives > gen[q].keepalives =>
            /\ gen'[q].pc = "yield"
            /\ sess'[q] = "open"
            /\ q \in subscribers'
            /\ queue' = queue]_vars

\* One session has ended by cancellation after a keep-alive while another,
\* which also timed out once, is still registered.
C35_Witness ==
  \E q, o \in AllQueues :
    /\ gen[q].pc = "ended" /\ gen[q].cause = "cancelled"
    /\ gen[q].keepalives > 0
    /\ gen[o].pc = "check" /\ gen[o].keepalives > 0
    /\ o \in subscribers

\* C36: no two writes (insert, batch insert, delete) are inside the store at
\* once, and a read (search, context, services) never waits for the writer
\* mutex: a read that has been called can enter whoever is inside.
C36_ReadsDoNotWait ==
  /\ Cardinality({c \in DbCallers : calls[c].pc = "inside"
                                    /\ calls[c].op \in WriteOps}) <= 1
  /\ \A c \in DbCallers :
       (calls[c].pc = "with _lock" /\ calls[c].op \in ReadOps) =>
         ENABLED db_enter(c)

\* C37: at any moment at most one live tailer thread reads a given container,
\* also when the container left the inventory, had its handle dropped and
\* came back with the same id.
C37_OneLiveTailerPerContainer ==
  \A c \in Containers :
    Cardinality({t \in 1..Len(threads) :
                   threads[t].cid = c /\ threads[t].alive}) <= 1

\* C38: in what is published to a queue, the entries of one
\* _notify_subscribers call stand together and in batch order, never mixed
\* with those of another call; and once a call has finished, every queue has
\* been offered the whole batch or, when it was not registered at the call,
\* none of it.
C38_PublishAtomic ==
  \A q \in AllQueues : \A b \in DOMAIN sent :
    LET pos == {i \in DOMAIN offered[q] : offered[q][i] \in Range(sent[b])}
    IN \/ pos = {}
       \/ \E m \in DOMAIN offered[q] :
            /\ pos = m..(m + Cardinality(pos) - 1)
            /\ \A i \in pos : offered[q][i] = sent[b][i - m + 1]
            /\ (pub.pc = "idle" \/ b < Len(sent)) =>
                 Cardinality(pos) = Len(sent[b])

\* Two batches of two entries were published; one queue was registered for
\* both, another was registered between the two calls.
C38_Witness ==
  /\ Len(sent) = 2 /\ Len(sent[1]) = 2 /\ Len(sent[2]) = 2
  /\ pub.pc = "idle"
  /\ \E q, o \in AllQueues :
       /\ Len(offered[q]) = 4
       /\ Len(offered[o]) = 2
       /\ offered[o][1] = sent[2][1]

\* C39: no line a tailer accepted is inserted twice or published twice by
\* that tailer: the rows of the store have distinct receipts, no two insert
\* calls carry the same receipt, and no session is given a receipt twice.
C39_AtMostOnce ==
  /\ \A r1, r2 \in logs :
       (r1.src = r2.src /\ r1.src[1] \in Tailers) => r1 = r2
  /\ \A b1, b2 \in batches : b1 # b2 => b1.srcs \cap b2.srcs = {}
  /\ \A q \in Queues : \A i, j \in DOMAIN Received(q) :
       i # j => Received(q)[i].src # Received(q)[j].src

\* A tailer has ended after a size-triggered flush and a residual flush, with
\* every line it accepted stored and published.
C39_Witness ==
  \E t \in Tailers :
    /\ pc[t] = "done"
    /\ Len(accepted[t]) = batch_size + 1
    /\ \A i \in DOMAIN accepted[t] :
         accepted[t][i] \in committed /\ accepted[t][i] \in published
    /\ Cardinality({r \in logs : r.src[1] = t}) = batch_size + 1
    /\ \E q \in Queues : Received(q) # <<>>

\* ------------------------------------------------ progress of a tailer thread

\* The pipeline with inserts that succeed and a stream that neither raises
\* nor is stopped: the steps of _tail_container and of the sessions.
NextLive ==
  \/ \E t \in Tailers : start_tailer(t)
  \/ \E t \in Tailers : \E now1, now2 \in Times :
       \E line \in StreamLines(now1) : tail_line(t, line, now1, now2)
  \/ \E t \in Tailers : tail_eof(t)
  \/ \E t \in Tailers : tail_insert(t)
  \/ \E t \in Tailers : tail_publish(t)
  \/ \E q \in Queues : subscribe(q)
  \/ \E q \in Queues : stream_get(q)
  \/ \E q \in Queues : unsubscribe(q)

\* A started thread runs: the steps that wait for nothing but the scheduler
\* (and _lock, _sub_lock, which are always released) are taken.  The next
\* line of container.logs(stream=True, follow=True) and the end of the
\* stream are the container's to give, so they carry no fairness.
tailer_scheduled ==
  \A t \in Tailers :
    /\ WF_vars(start_tailer(t))
    /\ WF_vars(tail_insert(t))
    /\ WF_vars(tail_publish(t))

SpecLive == Init /\ [][NextLive]_vars /\ tailer_scheduled

\* C40: every entry a tailer appended to its batch is eventually stored and
\* published, also when the stream stays open without further lines.
C40_AppendedEventuallyFlushed ==
  \A t \in Tailers : \A n \in 1..MaxLines :
    (\E i \in DOMAIN batch[t] : batch[t][i].src = <<t, n>>)
      ~> (<<t, n>> \in committed /\ <<t, n>> \in published)

====
